---- MODULE Spec2Model ----
(***************************************************************************)
(* A model of numato_gpio.NumatoUsbGpio (src/src/numato_gpio/__init__.py): *)
(* the poller thread that demultiplexes the serial byte stream, the        *)
(* hand-off buffer _buf, the command exchange under _rw_lock and the port  *)
(* operations built on it, against a device that answers as the wire       *)
(* protocol says (tests/serialmock.py).                                    *)
(*                                                                         *)
(* A character is a one-character string and a byte string a sequence of   *)
(* characters.  A bit vector (iodir, iomask, state, a notification value)  *)
(* is the set of the ports whose bit is 1, so that 128 bit values need no  *)
(* 128 bit integers.  A byte on the wire is a record [c, n, f]: c is the   *)
(* character; n and f are history information the program never reads: n   *)
(* numbers the ordinary bytes in the order the device sent them (0 for a   *)
(* byte of a notification frame), f is the number of the frame the byte    *)
(* belongs to (0 for an ordinary byte).                                    *)
(***************************************************************************)
EXTENDS Integers, Sequences, FiniteSets, TLC

VARIABLES
    rx,         \* bytes the device has sent and _ser.read has not yet returned
    is_open,    \* _ser.is_open
    fault,      \* the serial link is broken: _ser.read and _ser.write raise
    dev,        \* the device: [ports, eol, iodir, iomask, levels, notify, id]
    nsent,      \* history: number of ordinary bytes the device has sent
    frames,     \* history: the frames the device has sent, <<[cur, prev, at]>>
    ports,      \* _ports
    eol,        \* _eol
    iodir,      \* _iodir
    iomask,     \* _iomask
    state,      \* _state
    notify,     \* _notify
    id,         \* _id
    callback,   \* _callback
    edge,       \* _edge
    buf,        \* _buf
    q,          \* _q
    rw_lock,    \* the thread holding _rw_lock, or NoThread
    prog,       \* per thread: the steps of its running operation still to do
    resp,       \* per thread: the local variable response
    res,        \* per thread: how its last operation ended
    trace,      \* history: the calls made so far, <<[t, op, port, n, arg]>>
    ppc,        \* the poller's position in _poll
    cur,        \* the poller's current_value
    prev,       \* the poller's previous_value
    dport,      \* the poller's loop variable port
    pf,         \* history: the number of the frame the poller is decoding
    calls,      \* history: the callback invocations, <<[f, port, level]>>
    nappended,  \* history: number of bytes appended to _buf so far
    ntaken,     \* history: number of bytes _read has returned so far
    devices,    \* the module's dict devices: device id -> the session
    mod         \* the call of a function of the module that is under way

devVars  == <<rx, is_open, fault, dev, nsent, frames>>
sessVars == <<ports, eol, iodir, iomask, state, notify, id>>
regVars  == <<callback, edge>>
thrVars  == <<rw_lock, prog, resp, res, trace>>
pollVars == <<ppc, cur, prev, dport, q>>
histVars == <<pf, calls, nappended, ntaken>>
modVars  == <<devices, mod>>
vars == <<devVars, sessVars, regVars, buf, thrVars, pollVars, histVars,
          modVars>>

----------------------------------------------------------------------------
(* Bounds of the model *)

\* operations the caller threads start in one behaviour
MaxOps == 2
\* operations the single caller of SpecSeq starts in one behaviour
MaxSeqOps == 4
\* notification frames the device sends in one behaviour
MaxFrames == 1

----------------------------------------------------------------------------
(* Constants of the program *)

RISING == 1
FALLING == 2
BOTH == 3
OUT == 0
\* IN in the source, a reserved word here
IN_ == 1

NoThread == "none"
Poller == "poller"
Callers == {"t1", "t2"}
Threads == Callers \cup {Poller}

CR == "\r"
LF == "\n"
HexLower == <<"0", "1", "2", "3", "4", "5", "6", "7",
              "8", "9", "a", "b", "c", "d", "e", "f">>
HexUpper == <<"0", "1", "2", "3", "4", "5", "6", "7",
              "8", "9", "A", "B", "C", "D", "E", "F">>
DecDigits == <<"0", "1", "2", "3", "4", "5", "6", "7", "8", "9">>

\* the end-of-line sequences the program supports
EolSeqs == {<<CR, LF>>, <<LF, CR>>, <<CR>>, <<LF>>}
\* the port counts of the devices
PortCounts == {8, 16, 32, 64, 128}

----------------------------------------------------------------------------
(* Byte strings *)

Max(S) == CHOOSE x \in S : \A y \in S : y <= x
Min(S) == CHOOSE x \in S : \A y \in S : x <= y

\* the characters of a sequence of wire bytes
Chars(bs) == [i \in 1..Len(bs) |-> bs[i].c]

\* s[:n] and s[n:]
Take(s, n) == SubSeq(s, 1, IF n < Len(s) THEN n ELSE Len(s))
Drop(s, n) == SubSeq(s, (IF n < Len(s) THEN n ELSE Len(s)) + 1, Len(s))

\* s.startswith(p), s.endswith(p)
StartsWith(s, p) == Len(p) <= Len(s) /\ SubSeq(s, 1, Len(p)) = p
EndsWith(s, p) ==
    Len(p) <= Len(s) /\ SubSeq(s, Len(s) - Len(p) + 1, Len(s)) = p

\* s.find(p): the first index (from 0) where p occurs in s, -1 if nowhere
Find(s, p) ==
    LET at == {i \in 0..(Len(s) - Len(p)) : SubSeq(s, i + 1, i + Len(p)) = p}
    IN  IF at = {} THEN -1 ELSE Min(at)

\* s.replace(c, r) for a single character c
RECURSIVE Replace(_, _, _)
Replace(s, c, r) ==
    IF s = <<>> THEN <<>>
    ELSE (IF Head(s) = c THEN r ELSE <<Head(s)>>) \o Replace(Tail(s), c, r)

----------------------------------------------------------------------------
(* Bit vectors and their hexadecimal text *)

AllPorts(p) == 0..(p - 1)
Xor(a, b) == (a \ b) \cup (b \ a)
PowerOf2 == <<1, 2, 4, 8>>

\* the value of hex digit k (k = 0 is the least significant) of a bit vector
Nibble(mask, k) ==
    LET bit(b) == IF (4 * k + b) \in mask THEN PowerOf2[b + 1] ELSE 0
    IN  bit(0) + bit(1) + bit(2) + bit(3)

HexWidth(mask, dgts) ==
    LET need == IF mask = {} THEN 1 ELSE (Max(mask) \div 4) + 1
    IN  IF need > dgts THEN need ELSE dgts

\* a format that prints the least significant digit first
FormatHexReversed(mask, dgts) ==
    LET w == HexWidth(mask, dgts)
    IN  [i \in 1..w |-> HexLower[Nibble(mask, i - 1) + 1]]

\* "{:0{dgts}x}".format(mask)
FormatHex(mask, dgts) ==
    LET w == HexWidth(mask, dgts)
    IN  [i \in 1..w |-> HexLower[Nibble(mask, w - i) + 1]]

\* the device prints hexadecimal values in upper case
DevHex(mask, dgts) ==
    [i \in 1..dgts |-> HexUpper[Nibble(mask, dgts - i) + 1]]

IsSpace(c) == c \in {" ", CR, LF, "\t"}

\* s.strip(), which int() applies to its argument
Strip(s) ==
    LET solid == {i \in 1..Len(s) : ~IsSpace(s[i])}
    IN  IF solid = {} THEN <<>> ELSE SubSeq(s, Min(solid), Max(solid))

\* the value of a hexadecimal digit, -1 for any other character
HexVal(c) ==
    IF \E i \in 1..16 : HexLower[i] = c
    THEN (CHOOSE i \in 1..16 : HexLower[i] = c) - 1
    ELSE IF \E i \in 1..16 : HexUpper[i] = c
         THEN (CHOOSE i \in 1..16 : HexUpper[i] = c) - 1
         ELSE -1

\* int(s, 16) raises ValueError unless IntOk(s); signs, underscores and a 0x
\* prefix, which int() also accepts, never occur on this wire
IntOk(s) ==
    LET t == Strip(s)
    IN  t # <<>> /\ \A i \in 1..Len(t) : HexVal(t[i]) >= 0

\* int(s, 16) as a bit vector
IntVal(s) ==
    LET t == Strip(s)
    IN  {n \in 0..(4 * Len(t) - 1) :
            (HexVal(t[Len(t) - (n \div 4)]) \div PowerOf2[(n % 4) + 1]) % 2 = 1}

\* int(s) for a decimal string: raises ValueError unless DecOk(s)
DecOk(s) ==
    LET t == Strip(s)
    IN  t # <<>> /\ \A i \in 1..Len(t) : \E d \in 1..10 : DecDigits[d] = t[i]

\* int(s) for a decimal string
RECURSIVE DecVal(_)
DecVal(s) ==
    LET t == Strip(s)
    IN  IF t = <<>> THEN 0
        ELSE 10 * DecVal(SubSeq(t, 1, Len(t) - 1)) +
             (CHOOSE d \in 1..10 : DecDigits[d] = t[Len(t)]) - 1

----------------------------------------------------------------------------
(* The texts of the wire protocol *)

Q_readall   == <<"g","p","i","o"," ","r","e","a","d","a","l","l">>
Q_writeall  == <<"g","p","i","o"," ","w","r","i","t","e","a","l","l"," ">>
Q_iomask    == <<"g","p","i","o"," ","i","o","m","a","s","k"," ">>
Q_iodir     == <<"g","p","i","o"," ","i","o","d","i","r"," ">>
Q_notify    == <<"g","p","i","o"," ","n","o","t","i","f","y"," ">>
Q_notify_on  == Q_notify \o <<"o","n">>
Q_notify_off == Q_notify \o <<"o","f","f">>
Q_notify_get == Q_notify \o <<"g","e","t">>
Q_id_get    == <<"i","d"," ","g","e","t">>
Q_id_set    == <<"i","d"," ","s","e","t"," ">>
Q_ver       == <<"v","e","r">>
Q_adc_read  == <<"a","d","c"," ","r","e","a","d"," ">>
S_enabled   == <<"e","n","a","b","l","e","d">>
S_disabled  == <<"d","i","s","a","b","l","e","d">>
Prompt      == <<">">>

----------------------------------------------------------------------------
(* The device, as tests/serialmock.py and the wire protocol describe it *)

\* the devices that send notifications
DevSupportsNotification(p) == p # 8

\* the version and the analog value the device reports (each device carries
\* its version text in its field ver)
DevVersion == <<"0","0","0","0","0","0","0","8">>
DevAdcValue == <<"5","1","2">>

\* the ports writeall changes: outputs that iomask does not protect
DevWritable(d) == d.iomask \ d.iodir

\* the device after it has received the query text (without its final CR)
DevApply(d, text) ==
    LET arg(cmd) == Drop(text, Len(cmd))
        hexarg(cmd) == IntVal(arg(cmd)) \cap AllPorts(d.ports)
        is(cmd) == StartsWith(text, cmd) /\ IntOk(arg(cmd))
    IN  IF is(Q_writeall)
        THEN [d EXCEPT !.levels = (d.levels \ DevWritable(d)) \cup
                                  (hexarg(Q_writeall) \cap DevWritable(d))]
        ELSE IF is(Q_iomask) THEN [d EXCEPT !.iomask = hexarg(Q_iomask)]
        ELSE IF is(Q_iodir)
        THEN [d EXCEPT !.iodir = (d.iodir \ d.iomask) \cup
                                 (hexarg(Q_iodir) \cap d.iomask)]
        ELSE IF is(Q_id_set) THEN [d EXCEPT !.id = IntVal(arg(Q_id_set))]
        ELSE IF text = Q_notify_on /\ DevSupportsNotification(d.ports)
        THEN [d EXCEPT !.notify = TRUE]
        ELSE IF text = Q_notify_off /\ DevSupportsNotification(d.ports)
        THEN [d EXCEPT !.notify = FALSE]
        ELSE d

\* what the device answers after the echo; LF stands for its end of line
DevAnswer(d, text) ==
    LET word(on) == IF on THEN S_enabled ELSE S_disabled
    IN  IF text = Q_readall THEN DevHex(d.levels, d.ports \div 4) \o <<LF>> \o Prompt
        ELSE IF text = Q_id_get THEN DevHex(d.id, 8) \o <<LF>> \o Prompt
        ELSE IF text = Q_ver THEN d.ver \o <<LF>> \o Prompt
        ELSE IF StartsWith(text, Q_adc_read)
        THEN DevAdcValue \o <<LF>> \o Prompt
        ELSE IF text = Q_notify_get
        THEN Q_notify \o word(d.notify) \o <<LF>> \o Prompt
        ELSE IF text \in {Q_notify_on, Q_notify_off}
        THEN IF DevSupportsNotification(d.ports)
             THEN Q_notify \o word(text = Q_notify_on) \o <<LF>> \o Prompt
             ELSE <<>>
        ELSE Prompt

\* the letters, for devices that echo a query in capitals
Lowercase == <<"a", "b", "c", "d", "e", "f", "g", "h", "i", "j", "k", "l", "m",
               "n", "o", "p", "q", "r", "s", "t", "u", "v", "w", "x", "y", "z">>
Uppercase == <<"A", "B", "C", "D", "E", "F", "G", "H", "I", "J", "K", "L", "M",
               "N", "O", "P", "Q", "R", "S", "T", "U", "V", "W", "X", "Y", "Z">>

\* str.upper() and str.lower()
Upper(s) ==
    [i \in 1..Len(s) |->
        IF \E k \in 1..26 : Lowercase[k] = s[i]
        THEN Uppercase[CHOOSE k \in 1..26 : Lowercase[k] = s[i]]
        ELSE s[i]]
Lower(s) ==
    [i \in 1..Len(s) |->
        IF \E k \in 1..26 : Uppercase[k] = s[i]
        THEN Lowercase[CHOOSE k \in 1..26 : Uppercase[k] = s[i]]
        ELSE s[i]]

\* the echo of a query: the query as it was typed, or in capitals
DevEcho(d, query) == IF d.caps THEN Upper(query) ELSE query

\* SerialMock.respond: the echo and the answer, with the device's end of line
DevRespond(d, query) ==
    Replace(DevEcho(d, query), CR, d.eol) \o
    Replace(DevAnswer(d, Take(query, Len(query) - 1)), LF, d.eol)

\* a notification frame: eol # current previous iodir
DevFrame(d, c, pv) ==
    d.eol \o <<"#", " ">> \o DevHex(c, d.ports \div 4) \o <<" ">> \o
    DevHex(pv, d.ports \div 4) \o <<" ">> \o DevHex(d.iodir, d.ports \div 4)

\* history marks: ordinary bytes numbered from n0 + 1, the bytes of frame k
Ordinary(chars, n0) ==
    [i \in 1..Len(chars) |-> [c |-> chars[i], n |-> n0 + i, f |-> 0]]
FrameBytes(chars, k) ==
    [i \in 1..Len(chars) |-> [c |-> chars[i], n |-> 0, f |-> k]]

----------------------------------------------------------------------------
(* The session's constants after construction *)

MASK_ALL_PORTS == AllPorts(ports)
HEX_DIGITS == ports \div 4

\* can_notify
can_notify == ports # 8

\* ADC_PORTS[ports]
ADC_PORTS ==
    IF ports = 8 THEN {0, 1, 2, 3, 6, 7}
    ELSE IF ports = 16 THEN 0..6
    ELSE IF ports = 32 THEN 1..7
    ELSE 0..31

\* _edge[port] is None
NoEdge == 0

\* "{}".format(n) for 0 <= n < 100
DecFormat(n) ==
    IF n < 10 THEN <<DecDigits[n + 1]>>
    ELSE <<DecDigits[(n \div 10) + 1], DecDigits[(n % 10) + 1]>>

----------------------------------------------------------------------------
(* The steps of an operation.  An operation that has entered its           *)
(* `with self._rw_lock` block leaves in prog[t] the steps it still has to  *)
(* do, each one statement of the source that touches the serial port, the  *)
(* hand-off buffer, the lock or an attribute:                              *)
(*   send    _write(s + CR)                                                *)
(*   echo    _read_string(s + _eol), the echo check of _query              *)
(*   expect  _read_string(s); a mismatch raises the error named e          *)
(*   readint response = _read(n); int(response, 16)                        *)
(*   until   _read_until(s), or _read_until(_eol) if e is "eol"; m is the  *)
(*           response read so far; the result is dropped if e is "discard" *)
(*   set     an attribute (named e) is assigned m, n or the response       *)
(*   close   _ser.close()                                                  *)
(*   drain, start, detect, ports, attrs   statements of __init__           *)
(*   rel     the outermost `with self._rw_lock` block is left              *)
(*   ret     the operation returns                                         *)
(* Entering a nested `with self._rw_lock` block in the thread that holds   *)
(* the reentrant lock neither blocks nor releases it and is no step.       *)
(***************************************************************************)

Step(k, s, m, n, e) == [k |-> k, s |-> s, m |-> m, n |-> n, e |-> e]
SendStep(text)     == Step("send", text, {}, 0, "")
EchoStep(text)     == Step("echo", text, {}, 0, "echo")
ExpectStep(s, e)   == Step("expect", s, {}, 0, e)
ReadIntStep(n)     == Step("readint", <<>>, {}, n, "result")
UntilStep(s)       == Step("until", s, <<>>, 0, "")
UntilEolStep       == Step("until", <<>>, <<>>, 0, "eol")
UntilDiscardStep(s) == Step("until", s, <<>>, 0, "discard")
SetStep(attr, m)   == Step("set", <<>>, m, 0, attr)
SetFlagStep(attr, b) == Step("set", <<>>, {}, IF b THEN 1 ELSE 0, attr)
CloseStep          == Step("close", <<>>, {}, 0, "")
RelStep            == Step("rel", <<>>, {}, 0, "")
RetStep(what)      == Step("ret", <<>>, {}, 0, what)

\* _query(query, expected)
_query(query, expected) ==
    <<SendStep(query), EchoStep(query)>> \o
    (IF expected = <<>> THEN <<>> ELSE <<ExpectStep(expected, "response")>>)

\* _read_int(query, bits)
_read_int(query, bits) ==
    _query(query, <<>>) \o
    <<ReadIntStep(bits \div 4), ExpectStep(eol \o Prompt, "after")>>

\* the iomask setter
iomask_setter(mask) ==
    _query(Q_iomask \o FormatHex(mask, HEX_DIGITS), Prompt) \o
    <<SetStep("iomask", mask)>>

\* an iodir setter that leaves the iomask alone
iodir_setter_plain(direction) ==
    _query(Q_iodir \o FormatHex(direction, HEX_DIGITS), Prompt) \o
    <<SetStep("iodir", direction)>>

\* an iodir setter that sends the direction before it widens the iomask
iodir_setter_reordered(direction) ==
    _query(Q_iodir \o FormatHex(direction, HEX_DIGITS), Prompt) \o
    iomask_setter(MASK_ALL_PORTS) \o
    iomask_setter(Xor(direction, MASK_ALL_PORTS)) \o
    <<SetStep("iodir", direction)>>

\* an iodir setter that narrows the iomask to the direction itself
iodir_setter_uncomplemented(direction) ==
    iomask_setter(MASK_ALL_PORTS) \o
    _query(Q_iodir \o FormatHex(direction, HEX_DIGITS), Prompt) \o
    iomask_setter(direction) \o
    <<SetStep("iodir", direction)>>

\* the iodir setter
iodir_setter(direction) ==
    iomask_setter(MASK_ALL_PORTS) \o
    _query(Q_iodir \o FormatHex(direction, HEX_DIGITS), Prompt) \o
    iomask_setter(Xor(direction, MASK_ALL_PORTS)) \o
    <<SetStep("iodir", direction)>>

\* the part of the notify setter inside its `with` block
notify_query(enable) ==
    _query(IF enable THEN Q_notify_on ELSE Q_notify_off,
           Q_notify \o (IF enable THEN S_enabled ELSE S_disabled) \o
           eol \o Prompt)

\* how an operation that is running, has returned or has raised is recorded
\* (port and n are its integer arguments, arg its bit vector argument)
Running(op, port, n, arg) ==
    [op |-> op, port |-> port, n |-> n, arg |-> arg, st |-> "run",
     err |-> "", val |-> {}, num |-> 0]
Idle == [op |-> "", port |-> 0, n |-> 0, arg |-> {}, st |-> "idle",
         err |-> "", val |-> {}, num |-> 0]

\* devices = dict(): no device is registered; no function of the module is
\* being called
NoDevices == <<>>
ModIdle == [op |-> "", st |-> "idle"]

\* Enter without the mutual exclusion of _rw_lock
EnterWithoutLock(t, op, port, n, arg, p) ==
    /\ rw_lock' = t
    /\ prog' = [prog EXCEPT ![t] = p]
    /\ res' = [res EXCEPT ![t] = Running(op, port, n, arg)]
    /\ resp' = [resp EXCEPT ![t] = <<>>]

\* thread t starts operation op under the lock, with the steps p to do
Enter(t, op, port, n, arg, p) ==
    /\ rw_lock = NoThread
    /\ rw_lock' = t
    /\ prog' = [prog EXCEPT ![t] = p]
    /\ res' = [res EXCEPT ![t] = Running(op, port, n, arg)]
    /\ resp' = [resp EXCEPT ![t] = <<>>]

\* thread t's operation op raises err before it has locked or sent anything
Refuse(t, op, port, n, arg, err) ==
    /\ res' = [res EXCEPT ![t] = [Running(op, port, n, arg) EXCEPT
                                     !.st = "raised", !.err = err]]
    /\ UNCHANGED <<rw_lock, prog, resp>>

\* thread t's running operation raises err: its `with` blocks release the lock
Raise(t, err) ==
    /\ prog' = [prog EXCEPT ![t] = <<>>]
    /\ rw_lock' = IF rw_lock = t THEN NoThread ELSE rw_lock
    /\ res' = [res EXCEPT ![t].st = "raised", ![t].err = err]

\* a caller thread is free to start an operation
CanStart(t) ==
    /\ t \in Callers
    /\ prog[t] = <<>>

\* history: thread t calls operation op
Called(t, op, port, n, arg) ==
    trace' = Append(trace, [t |-> t, op |-> op, port |-> port, n |-> n,
                            arg |-> arg])

\* an exception that leaves a callback ends the poller thread: _poll catches
\* only TypeError and SerialException
Unwind(t) == ppc' = IF t = Poller THEN "dead" ELSE ppc

----------------------------------------------------------------------------
(* The operations.  Each action is the call up to and including the entry  *)
(* into its outermost `with self._rw_lock` block: what it does before      *)
(* reads only attributes that never change after construction.             *)

\* a range check that lets every port pass
InRangeAny(port) == TRUE

\* _check_port_range(port) passes
InRange(port) == port \in 0..(ports - 1)

\* a setup that clears the direction bits of the other ports
setup_iodir_alone(port, direction) ==
    IF direction # 0 THEN {port} ELSE {}

\* the new direction vector setup computes
setup_iodir(port, direction) ==
    (iodir \ {port}) \cup (IF direction # 0 THEN {port} ELSE {})

\* setup(port, direction)
setup(t, port, direction) ==
    /\ CanStart(t)
    /\ Called(t, "setup", port, direction, {})
    /\ IF ~InRange(port)
       THEN Refuse(t, "setup", port, direction, {}, "range")
       ELSE Enter(t, "setup", port, direction, {},
                  iodir_setter(setup_iodir(port, direction)) \o
                  <<RelStep, RetStep("none")>>)
    /\ UNCHANGED <<devVars, modVars, sessVars, regVars, buf, pollVars, histVars>>

\* a write that never refuses
write_refuses_never(port) == FALSE

\* write refuses a port that is configured as input
write_refuses(port) == port \in iodir

\* a write that forgets the levels of the other ports
write_state_forgets(port, value) ==
    (IF value # 0 THEN {port} ELSE {}) \ iodir

\* the value write and then writeall store in _state
write_state(port, value) ==
    ((state \ {port}) \cup (IF value # 0 THEN {port} ELSE {})) \ iodir

\* a write that does not wait for the lock of the session
write_body_unlocked(t, port, value) ==
    IF write_refuses(port)
    THEN /\ Refuse(t, "write", port, value, {}, "iodir")
         /\ UNCHANGED state
    ELSE /\ state' = write_state(port, value)
         /\ EnterWithoutLock(t, "write", port, value, {},
                             _query(Q_writeall \o
                                    FormatHex(write_state(port, value),
                                              HEX_DIGITS),
                                    Prompt) \o
                             <<RelStep, RetStep("none")>>)

\* write(port, value) in thread t, after the range check
write_body(t, port, value) ==
    /\ rw_lock = NoThread
    /\ IF write_refuses(port)
       THEN /\ Refuse(t, "write", port, value, {}, "iodir")
            /\ UNCHANGED state
       ELSE /\ state' = write_state(port, value)
            /\ Enter(t, "write", port, value, {},
                     _query(Q_writeall \o
                            FormatHex(write_state(port, value), HEX_DIGITS),
                            Prompt) \o
                     <<RelStep, RetStep("none")>>)

\* write(port, value)
write(t, port, value) ==
    /\ CanStart(t)
    /\ Called(t, "write", port, value, {})
    /\ IF ~InRange(port)
       THEN /\ Refuse(t, "write", port, value, {}, "range")
            /\ UNCHANGED state
       ELSE write_body(t, port, value)
    /\ UNCHANGED <<devVars, modVars, ports, eol, iodir, iomask, notify, id, regVars,
                   buf, pollVars, histVars>>

\* readall(), and read(port) which calls it
readall_steps(what) ==
    _read_int(Q_readall, ports) \o
    <<Step("set", <<>>, {}, 0, "state"), RelStep, RetStep(what)>>

readall(t) ==
    /\ CanStart(t)
    /\ Called(t, "readall", 0, 0, {})
    /\ Enter(t, "readall", 0, 0, {}, readall_steps("state"))
    /\ UNCHANGED <<devVars, modVars, sessVars, regVars, buf, pollVars, histVars>>

read(t, port) ==
    /\ CanStart(t)
    /\ Called(t, "read", port, 0, {})
    /\ IF ~InRange(port)
       THEN Refuse(t, "read", port, 0, {}, "range")
       ELSE Enter(t, "read", port, 0, {}, readall_steps("bit"))
    /\ UNCHANGED <<devVars, modVars, sessVars, regVars, buf, pollVars, histVars>>

\* a writeall that stores and sends its argument as it is
writeall_state_unmasked(bits) == bits

\* the value writeall stores in _state: bits & ~_iodir
writeall_state(bits) == bits \ iodir

\* writeall(bits)
writeall(t, bits) ==
    /\ CanStart(t)
    /\ Called(t, "writeall", 0, 0, bits)
    /\ state' = writeall_state(bits)
    /\ Enter(t, "writeall", 0, 0, bits,
             _query(Q_writeall \o FormatHex(writeall_state(bits), HEX_DIGITS),
                    Prompt) \o
             <<RelStep, RetStep("none")>>)
    /\ UNCHANGED <<devVars, modVars, ports, eol, iodir, iomask, notify, id, regVars,
                   buf, pollVars, histVars>>

\* iodir = direction
iodir_set(t, direction) ==
    /\ CanStart(t)
    /\ Called(t, "iodir", 0, 0, direction)
    /\ Enter(t, "iodir", 0, 0, direction,
             iodir_setter(direction) \o <<RelStep, RetStep("none")>>)
    /\ UNCHANGED <<devVars, modVars, sessVars, regVars, buf, pollVars, histVars>>

\* iomask = mask
iomask_set(t, mask) ==
    /\ CanStart(t)
    /\ Called(t, "iomask", 0, 0, mask)
    /\ Enter(t, "iomask", 0, 0, mask,
             iomask_setter(mask) \o <<RelStep, RetStep("none")>>)
    /\ UNCHANGED <<devVars, modVars, sessVars, regVars, buf, pollVars, histVars>>

\* notify = enable; _notify is assigned after the lock is released
notify_set(t, enable) ==
    /\ CanStart(t)
    /\ Called(t, "notify", 0, IF enable THEN 1 ELSE 0, {})
    /\ IF ~can_notify
       THEN /\ res' = [res EXCEPT ![t] =
                          [Running("notify", 0, IF enable THEN 1 ELSE 0, {})
                              EXCEPT !.st = "done"]]
            /\ UNCHANGED <<rw_lock, prog, resp>>
       ELSE Enter(t, "notify", 0, IF enable THEN 1 ELSE 0, {},
                  notify_query(enable) \o
                  <<RelStep, SetFlagStep("notify", enable), RetStep("none")>>)
    /\ UNCHANGED <<devVars, modVars, sessVars, regVars, buf, pollVars, histVars>>

\* the id getter: _id is read from the device only while it is not cached
id_get(t) ==
    /\ CanStart(t)
    /\ Called(t, "id_get", 0, 0, {})
    /\ IF id = {-1}
       THEN Enter(t, "id_get", 0, 0, {},
                  _read_int(Q_id_get, 32) \o
                  <<Step("set", <<>>, {}, 0, "id_read"),
                    RelStep, RetStep("none")>>)
       ELSE /\ res' = [res EXCEPT ![t] =
                          [Running("id_get", 0, 0, {}) EXCEPT
                              !.st = "done", !.val = id]]
            /\ UNCHANGED <<rw_lock, prog, resp>>
    /\ UNCHANGED <<devVars, modVars, sessVars, regVars, buf, pollVars, histVars>>

\* an id setter that assigns _id before it asks the device
id_set_early(t, new_id) ==
    /\ CanStart(t)
    /\ Called(t, "id", 0, 0, new_id)
    /\ Enter(t, "id", 0, 0, new_id,
             <<SetStep("id", new_id)>> \o
             _query(Q_id_set \o FormatHex(new_id, 8), Prompt) \o
             <<RelStep, RetStep("none")>>)
    /\ UNCHANGED <<devVars, modVars, sessVars, regVars, buf, pollVars, histVars>>

\* id = new_id; _id is assigned after _query has released the lock
id_set(t, new_id) ==
    /\ CanStart(t)
    /\ Called(t, "id", 0, 0, new_id)
    /\ Enter(t, "id", 0, 0, new_id,
             _query(Q_id_set \o FormatHex(new_id, 8), Prompt) \o
             <<RelStep, SetStep("id", new_id), RetStep("none")>>)
    /\ UNCHANGED <<devVars, modVars, sessVars, regVars, buf, pollVars, histVars>>

\* an adc_read that does not look up ADC_PORTS
adc_read_unchecked(t, adc_port) ==
    /\ CanStart(t)
    /\ Called(t, "adc_read", adc_port, 0, {})
    /\ Enter(t, "adc_read", adc_port, 0, {},
             _query(Q_adc_read \o DecFormat(adc_port), <<>>) \o
             <<UntilStep(Prompt), Step("adc", <<>>, {}, 0, "result"),
               RelStep, RetStep("num")>>)
    /\ UNCHANGED <<devVars, modVars, sessVars, regVars, buf, pollVars, histVars>>

\* adc_read(adc_port)
adc_read(t, adc_port) ==
    /\ CanStart(t)
    /\ Called(t, "adc_read", adc_port, 0, {})
    /\ IF adc_port \notin ADC_PORTS
       THEN Refuse(t, "adc_read", adc_port, 0, {}, "adc")
       ELSE Enter(t, "adc_read", adc_port, 0, {},
                  _query(Q_adc_read \o DecFormat(adc_port), <<>>) \o
                  <<UntilStep(Prompt), Step("adc", <<>>, {}, 0, "result"),
                    RelStep, RetStep("num")>>)
    /\ UNCHANGED <<devVars, modVars, sessVars, regVars, buf, pollVars, histVars>>

\* add_event_detect(port, callback, edge): two assignments, no lock
add_event_detect(t, port, cb, e) ==
    /\ CanStart(t)
    /\ Called(t, "add_event_detect", port, e, {})
    /\ IF ~InRange(port)
       THEN /\ Refuse(t, "add_event_detect", port, e, {}, "index")
            /\ UNCHANGED callback
       ELSE /\ callback' = [callback EXCEPT ![port] = cb]
            /\ prog' = [prog EXCEPT ![t] =
                           <<Step("edge", <<>>, {port}, e, ""),
                             RetStep("none")>>]
            /\ res' = [res EXCEPT ![t] =
                          Running("add_event_detect", port, e, {})]
            /\ UNCHANGED <<rw_lock, resp>>
    /\ UNCHANGED <<devVars, modVars, sessVars, edge, buf, pollVars, histVars>>

\* remove_event_detect(port)
remove_event_detect(t, port) ==
    /\ CanStart(t)
    /\ Called(t, "remove_event_detect", port, 0, {})
    /\ IF ~InRange(port)
       THEN /\ Refuse(t, "remove_event_detect", port, 0, {}, "index")
            /\ UNCHANGED callback
       ELSE /\ callback' = [callback EXCEPT ![port] = "None"]
            /\ prog' = [prog EXCEPT ![t] =
                           <<Step("edge", <<>>, {port}, NoEdge, ""),
                             RetStep("none")>>]
            /\ res' = [res EXCEPT ![t] =
                          Running("remove_event_detect", port, 0, {})]
            /\ UNCHANGED <<rw_lock, resp>>
    /\ UNCHANGED <<devVars, modVars, sessVars, edge, buf, pollVars, histVars>>

\* cleanup()
cleanup(t) ==
    /\ CanStart(t)
    /\ Called(t, "cleanup", 0, 0, {})
    /\ Enter(t, "cleanup", 0, 0, {},
             iomask_setter(MASK_ALL_PORTS) \o
             iodir_setter(MASK_ALL_PORTS) \o
             (IF can_notify
              THEN notify_query(FALSE) \o <<SetFlagStep("notify", FALSE)>>
              ELSE <<>>) \o
             <<CloseStep, RelStep, RetStep("none")>>)
    /\ UNCHANGED <<devVars, modVars, sessVars, regVars, buf, pollVars, histVars>>

----------------------------------------------------------------------------
(* The steps of a running operation *)

At(t, k) == prog[t] # <<>> /\ Head(prog[t]).k = k
Pop(t) == prog' = [prog EXCEPT ![t] = Tail(@)]

\* _read(num) can return: the hand-off buffer holds num bytes
CanRead(num) == Len(buf) >= num

\* _write(query): the device receives the query and queues its echo and answer
Send(t) ==
    /\ At(t, "send")
    /\ LET text == Head(prog[t]).s
           out == DevRespond(dev, text \o <<CR>>)
       IN  IF fault \/ ~is_open
           THEN /\ is_open' = FALSE
                /\ Raise(t, "serial")
                /\ Unwind(t)
                /\ UNCHANGED <<rx, dev, nsent>>
           ELSE /\ rx' = rx \o Ordinary(out, nsent)
                /\ nsent' = nsent + Len(out)
                /\ dev' = DevApply(dev, text)
                /\ Pop(t)
                /\ UNCHANGED <<is_open, rw_lock, res, ppc>>
    /\ UNCHANGED <<fault, modVars, frames, sessVars, regVars, buf, resp, trace,
                   cur, prev, dport, q, histVars>>

\* _read_string(expected)
ReadString(t) ==
    /\ At(t, "echo") \/ At(t, "expect")
    /\ LET st == Head(prog[t])
           expected == IF st.k = "echo" THEN st.s \o eol ELSE st.s
           string == Take(buf, Len(expected))
       IN  /\ CanRead(Len(expected))
           /\ buf' = Drop(buf, Len(expected))
           /\ ntaken' = ntaken + Len(string)
           /\ IF Chars(string) # expected
              THEN Raise(t, st.e) /\ Unwind(t)
              ELSE Pop(t) /\ UNCHANGED <<rw_lock, res, ppc>>
    /\ UNCHANGED <<devVars, modVars, sessVars, regVars, resp, trace, cur, prev, dport,
                   q, pf, calls, nappended>>

\* response = _read(bits // 4); val = int(response, 16)
ReadInt(t) ==
    /\ At(t, "readint")
    /\ LET st == Head(prog[t])
           response == Take(buf, st.n)
       IN  /\ CanRead(st.n)
           /\ buf' = Drop(buf, st.n)
           /\ ntaken' = ntaken + Len(response)
           /\ resp' = [resp EXCEPT ![t] = response]
           /\ IF ~IntOk(Chars(response))
              THEN Raise(t, st.e)
              ELSE /\ Pop(t)
                   /\ res' = [res EXCEPT ![t].val = IntVal(Chars(response))]
                   /\ UNCHANGED rw_lock
    /\ UNCHANGED <<devVars, modVars, sessVars, regVars, trace, pollVars, pf, calls,
                   nappended>>

\* one turn of the loop of _read_until(end_str)
ReadUntil(t) ==
    /\ At(t, "until")
    /\ CanRead(1)
    /\ LET st == Head(prog[t])
           end_str == IF st.e = "eol" THEN eol ELSE st.s
           response == st.m \o Take(buf, 1)
       IN  /\ buf' = Drop(buf, 1)
           /\ ntaken' = ntaken + 1
           /\ IF EndsWith(Chars(response), end_str)
              THEN /\ Pop(t)
                   /\ resp' = [resp EXCEPT ![t] = IF st.e = "discard" THEN @
                                                  ELSE response]
              ELSE /\ prog' = [prog EXCEPT ![t][1].m = response]
                   /\ UNCHANGED resp
    /\ UNCHANGED <<devVars, modVars, sessVars, regVars, rw_lock, res, trace, pollVars,
                   pf, calls, nappended>>

\* adc_read: int(resp[:resp.find(self._eol)])
AdcParse(t) ==
    /\ At(t, "adc")
    /\ LET r == Chars(resp[t])
           text == IF Find(r, eol) < 0 THEN Take(r, Len(r) - 1)
                   ELSE Take(r, Find(r, eol))
       IN  IF ~DecOk(text)
           THEN Raise(t, Head(prog[t]).e)
           ELSE /\ Pop(t)
                /\ res' = [res EXCEPT ![t].num = DecVal(text)]
                /\ UNCHANGED rw_lock
    /\ UNCHANGED <<devVars, modVars, sessVars, regVars, buf, resp, trace, pollVars,
                   histVars>>

\* an assignment to an attribute of the session
Assign(t) ==
    /\ At(t, "set")
    /\ LET st == Head(prog[t])
       IN  /\ iomask' = IF st.e = "iomask" THEN st.m ELSE iomask
           /\ iodir' = IF st.e = "iodir" THEN st.m ELSE iodir
           /\ id' = IF st.e = "id" THEN st.m
                    ELSE IF st.e = "id_read" THEN res[t].val ELSE id
           /\ state' = IF st.e = "state" THEN res[t].val ELSE state
           /\ notify' = IF st.e = "notify" THEN st.n = 1 ELSE notify
           /\ eol' = IF st.e = "eol" THEN st.s ELSE eol
    /\ Pop(t)
    /\ UNCHANGED <<devVars, modVars, ports, regVars, buf, rw_lock, resp, res,
                   trace, pollVars, histVars>>

\* the second assignment of add_event_detect and remove_event_detect
AssignEdge(t) ==
    /\ At(t, "edge")
    /\ LET st == Head(prog[t])
       IN  edge' = [p \in DOMAIN edge |-> IF p \in st.m THEN st.n ELSE edge[p]]
    /\ Pop(t)
    /\ UNCHANGED <<devVars, modVars, sessVars, callback, buf, rw_lock, resp, res,
                   trace, pollVars, histVars>>

\* _ser.close()
Close(t) ==
    /\ At(t, "close")
    /\ is_open' = FALSE
    /\ Pop(t)
    /\ UNCHANGED <<rx, fault, modVars, dev, nsent, frames, sessVars, regVars, buf,
                   rw_lock, resp, res, trace, pollVars, histVars>>

\* the outermost `with self._rw_lock` block is left
Release(t) ==
    /\ At(t, "rel")
    /\ rw_lock' = NoThread
    /\ Pop(t)
    /\ UNCHANGED <<devVars, modVars, sessVars, regVars, buf, resp, res, trace,
                   pollVars, histVars>>

\* the operation returns; a callback returns into the poller's loop
Return(t) ==
    /\ At(t, "ret")
    /\ LET what == Head(prog[t]).e
       IN  res' = [res EXCEPT
                      ![t].st = "done",
                      ![t].val = IF what = "state" THEN state ELSE @,
                      ![t].num = IF what = "bit"
                                 THEN (IF res[t].port \in state THEN 1 ELSE 0)
                                 ELSE @]
    /\ Pop(t)
    /\ IF t = Poller
       THEN ppc' = "select" /\ dport' = dport + 1
       ELSE UNCHANGED <<ppc, dport>>
    /\ UNCHANGED <<devVars, modVars, sessVars, regVars, buf, rw_lock, resp, trace,
                   cur, prev, q, histVars>>

----------------------------------------------------------------------------
(* The poller thread, _poll.  One step is one _ser.read with what          *)
(* read_notification and the loop do with its result.                      *)

\* _ser.read raises SerialException (a closed port raises it as well)
ReadRaises == fault \/ ~is_open

\* the except clause of _poll: the port is closed and the thread ends
PollerEnds ==
    /\ is_open' = FALSE
    /\ ppc' = "done"

\* a hand-off buffer that puts new bytes in front of the old ones
AppendedInFront(bytes) ==
    [i \in 1..Len(bytes) |->
        [c |-> bytes[i].c, n |-> bytes[i].n, f |-> bytes[i].f,
         a |-> nappended + i]] \o buf

\* _buf += buf under _can_read, with the history mark of each byte
Appended(bytes) ==
    buf \o [i \in 1..Len(bytes) |->
               [c |-> bytes[i].c, n |-> bytes[i].n, f |-> bytes[i].f,
                a |-> nappended + i]]

\* a poller that appends only while no thread holds the lock of the session
DeliverUnderLock(ret) ==
    /\ rw_lock = NoThread
    /\ buf' = Appended(ret)
    /\ nappended' = nappended + Len(ret)

\* read_notification returns (None, None, ret): the loop appends ret
Deliver(ret) ==
    /\ buf' = Appended(ret)
    /\ nappended' = nappended + Len(ret)

PollerRuns == prog[Poller] = <<>>

\* the loop condition, the assertion and the first read of read_notification
PollTop ==
    /\ ppc = "top"
    /\ PollerRuns
    /\ IF ~is_open
       THEN /\ ppc' = "done"
            /\ UNCHANGED <<rx, is_open, q, buf, nappended>>
       ELSE IF Len(q) > 1
       THEN /\ ppc' = "dead"
            /\ UNCHANGED <<rx, is_open, q, buf, nappended>>
       ELSE IF q = <<>> /\ ReadRaises
       THEN PollerEnds /\ UNCHANGED <<rx, q, buf, nappended>>
       ELSE LET first == IF q = <<>> THEN Take(rx, 1) ELSE q
            IN  /\ rx' = IF q = <<>> THEN Drop(rx, 1) ELSE rx
                /\ UNCHANGED is_open
                /\ IF first = <<>>
                   THEN UNCHANGED <<q, ppc, buf, nappended>>
                   ELSE IF ~StartsWith(eol, Chars(first))
                   THEN q' = <<>> /\ Deliver(first) /\ UNCHANGED ppc
                   ELSE /\ q' = first
                        /\ ppc' = IF Len(eol) = 2 THEN "second" ELSE "third"
                        /\ UNCHANGED <<buf, nappended>>
    /\ UNCHANGED <<fault, modVars, dev, nsent, frames, sessVars, regVars, thrVars,
                   cur, prev, dport, pf, calls, ntaken>>

\* a poller that keeps both characters in its look-ahead when the second
\* one does not complete the end of line
PollSecondKeepsAll ==
    /\ ppc = "second"
    /\ IF ReadRaises
       THEN PollerEnds /\ UNCHANGED <<rx, q, buf, nappended>>
       ELSE LET q2 == q \o Take(rx, 1)
            IN  /\ rx' = Drop(rx, 1)
                /\ UNCHANGED is_open
                /\ IF Chars(q2) # eol
                   THEN /\ q' = q2
                        /\ Deliver(<<>>)
                        /\ ppc' = "top"
                   ELSE /\ q' = q2
                        /\ ppc' = "third"
                        /\ UNCHANGED <<buf, nappended>>
    /\ UNCHANGED <<fault, modVars, dev, nsent, frames, sessVars, regVars, thrVars,
                   cur, prev, dport, calls, ntaken, pf>>

\* the read of the second character of a two character end of line
PollSecond ==
    /\ ppc = "second"
    /\ IF ReadRaises
       THEN PollerEnds /\ UNCHANGED <<rx, q, buf, nappended>>
       ELSE LET q2 == q \o Take(rx, 1)
            IN  /\ rx' = Drop(rx, 1)
                /\ UNCHANGED is_open
                /\ IF Chars(q2) # eol
                   THEN /\ q' = <<q2[Len(q2)]>>
                        /\ Deliver(Take(q2, Len(q2) - 1))
                        /\ ppc' = "top"
                   ELSE /\ q' = q2
                        /\ ppc' = "third"
                        /\ UNCHANGED <<buf, nappended>>
    /\ UNCHANGED <<fault, modVars, dev, nsent, frames, sessVars, regVars, thrVars,
                   cur, prev, dport, pf, calls, ntaken>>

\* a poller that takes no character for the start of a frame
IsNotificationNever(c) == FALSE

\* self._q[-1] == "#": the character after an end of line starts a frame
IsNotification(c) == c = "#"

\* the read of the character after an end of line
PollThird ==
    /\ ppc = "third"
    /\ IF ReadRaises
       THEN PollerEnds /\ UNCHANGED <<rx, q, buf, nappended, pf>>
       ELSE LET q3 == q \o Take(rx, 1)
            IN  /\ rx' = Drop(rx, 1)
                /\ UNCHANGED is_open
                /\ IF ~IsNotification(q3[Len(q3)].c)
                   THEN /\ q' = <<q3[Len(q3)]>>
                        /\ Deliver(Take(q3, Len(q3) - 1))
                        /\ ppc' = IF Len(eol) = 1 \/ eol[1] # eol[2]
                                  THEN "top" ELSE "dead"
                        /\ UNCHANGED pf
                   ELSE /\ q' = <<>>
                        /\ ppc' = "sep1"
                        /\ pf' = q3[Len(q3)].f
                        /\ UNCHANGED <<buf, nappended>>
    /\ UNCHANGED <<fault, modVars, dev, nsent, frames, sessVars, regVars, thrVars,
                   cur, prev, dport, calls, ntaken>>

\* the six reads of a detected notification: a separator and ports // 4
\* hexadecimal digits, three times; int() of a short or non hexadecimal
\* read raises ValueError, which _poll does not catch
PollFrame ==
    /\ ppc \in {"sep1", "cur", "sep2", "prev", "sep3", "iodir"}
    /\ IF ReadRaises
       THEN PollerEnds /\ UNCHANGED <<rx, cur, prev, dport>>
       ELSE LET n == IF ppc \in {"sep1", "sep2", "sep3"} THEN 1
                     ELSE HEX_DIGITS
                got == Chars(Take(rx, n))
            IN  /\ rx' = Drop(rx, n)
                /\ UNCHANGED is_open
                /\ ppc' = IF ppc \in {"cur", "prev"} /\ ~IntOk(got)
                          THEN "dead"
                          ELSE CASE ppc = "sep1" -> "cur"
                                 [] ppc = "cur" -> "sep2"
                                 [] ppc = "sep2" -> "prev"
                                 [] ppc = "prev" -> "sep3"
                                 [] ppc = "sep3" -> "iodir"
                                 [] ppc = "iodir" -> "select"
                /\ cur' = IF ppc = "cur" /\ IntOk(got) THEN IntVal(got)
                          ELSE cur
                /\ prev' = IF ppc = "prev" /\ IntOk(got) THEN IntVal(got)
                           ELSE prev
                /\ dport' = IF ppc = "iodir" THEN 0 ELSE dport
    /\ UNCHANGED <<fault, modVars, dev, nsent, frames, sessVars, regVars, buf,
                   thrVars, q, histVars>>

\* a poller that ignores the edge a callback was registered for
edge_selected_always(port) == TRUE

\* edge_detected(port) and edge_selected(port)
\* an edge test that looks at the current value only
edge_detected_high(port) == port \in cur

edge_detected(port) == port \in Xor(cur, prev)
logic_level(port) == port \in cur
edge_selected(port) ==
    \/ logic_level(port) /\ edge[port] \in {RISING, BOTH}
    \/ ~logic_level(port) /\ edge[port] \in {FALLING, BOTH}

\* the loop over the ports, up to the next port whose level changed
PollSelect ==
    /\ ppc = "select"
    /\ LET changed == {p \in dport..(ports - 1) : edge_detected(p)}
       IN  IF changed = {}
           THEN ppc' = "top" /\ dport' = 0
           ELSE IF edge_selected(Min(changed))
           THEN ppc' = "call" /\ dport' = Min(changed)
           ELSE ppc' = "select" /\ dport' = Min(changed) + 1
    /\ UNCHANGED <<devVars, modVars, sessVars, regVars, buf, thrVars, cur, prev, q,
                   histVars>>

\* self._callback[port](port, logic_level(port)): a callback of kind "mock"
\* records the call, one of kind "toggle" calls write(0, level) of its own
\* session; a callback that is not callable raises TypeError, which _poll
\* catches
PollCall ==
    /\ ppc = "call"
    /\ PollerRuns
    /\ IF callback[dport] = "mock"
       THEN /\ calls' = Append(calls, [f |-> pf, port |-> dport,
                                       level |-> logic_level(dport)])
            /\ ppc' = "select"
            /\ dport' = dport + 1
            /\ UNCHANGED <<is_open, state, rw_lock, prog, resp, res>>
       ELSE IF callback[dport] = "toggle"
       THEN /\ write_body(Poller, 0, IF logic_level(dport) THEN 1 ELSE 0)
            /\ ppc' = IF write_refuses(0) THEN "dead" ELSE "incall"
            /\ calls' = Append(calls, [f |-> pf, port |-> dport,
                                       level |-> logic_level(dport)])
            /\ UNCHANGED <<is_open, dport>>
       ELSE /\ PollerEnds
            /\ UNCHANGED <<state, calls, dport, rw_lock, prog, resp, res>>
    /\ UNCHANGED <<rx, fault, modVars, dev, nsent, frames, ports, eol, iodir, iomask,
                   notify, id, regVars, buf, trace, cur, prev, q, pf,
                   nappended, ntaken>>

----------------------------------------------------------------------------
(* The environment *)

\* the values a notification frame reports: <<current, previous>>
FramePairs ==
    {<<AllPorts(dev.ports), {}>>, <<{}, AllPorts(dev.ports)>>, <<{0}, {1}>>}
PinChanges == {<<{1}, {}>>, <<{}, {1}>>}

\* the bytes of one frame are sent in one piece: no frame begins while the
\* bytes of another one are being read
BetweenFrames ==
    /\ ppc \in {"top", "second", "third", "select", "call", "incall",
                "done", "dead"}
    /\ \A j \in 1..Len(q) : q[j].f = 0
    /\ IF rx = <<>> THEN TRUE ELSE rx[1].f = 0

\* history: the number of ordinary bytes the poller has read from the port
StreamPosition == IF rx = <<>> THEN nsent ELSE rx[1].n - 1

\* the device, with notifications enabled, sends a notification frame; it
\* arrives before the bytes the poller has not read yet, so that a frame can
\* come at every place of the stream of the ordinary bytes
DeviceNotify(pairs) ==
    /\ dev.notify
    /\ Len(frames) < MaxFrames
    /\ ~fault
    /\ BetweenFrames
    /\ \E pair \in pairs :
          /\ rx' = FrameBytes(DevFrame(dev, pair[1], pair[2]),
                              Len(frames) + 1) \o rx
          /\ frames' = Append(frames, [cur |-> pair[1], prev |-> pair[2],
                                       at |-> StreamPosition])
    /\ UNCHANGED <<is_open, fault, modVars, dev, nsent, sessVars, regVars, buf,
                   thrVars, pollVars, histVars>>

\* the serial link breaks (the device is unplugged)
Unplug ==
    /\ ~fault
    /\ fault' = TRUE
    /\ UNCHANGED <<rx, is_open, dev, nsent, frames, sessVars, regVars, buf,
                   thrVars, pollVars, histVars, modVars>>

----------------------------------------------------------------------------
(* The session after construction, and the calls of the applications       *)

\* the device the session was constructed on, with p ports and end of line e
DeviceAfterInit(p, e, levels, i) ==
    [ports |-> p, eol |-> e, iodir |-> AllPorts(p), iomask |-> {},
     levels |-> levels, notify |-> FALSE, id |-> i, ver |-> DevVersion,
     caps |-> FALSE,
     wire |-> <<>>]

\* a session on device d that no thread is using, with the notification
\* flag nf and the registrations cbs and edges
Ready(d, nf, cbs, edges) ==
    /\ rx = <<>> /\ is_open = TRUE /\ fault = FALSE
    /\ dev = d
    /\ nsent = 0 /\ frames = <<>>
    /\ ports = d.ports /\ eol = d.eol
    /\ iodir = d.iodir /\ iomask = d.iomask /\ state = {}
    /\ notify = nf /\ id = d.id
    /\ callback = cbs
    /\ edge = edges
    /\ buf = <<>> /\ q = <<>>
    /\ rw_lock = NoThread
    /\ prog = [t \in Threads |-> <<>>]
    /\ resp = [t \in Threads |-> <<>>]
    /\ res = [t \in Threads |-> Idle]
    /\ trace = <<>>
    /\ ppc = "top" /\ cur = {} /\ prev = {} /\ dport = 0
    /\ pf = 0 /\ calls = <<>> /\ nappended = 0 /\ ntaken = 0
    /\ devices = NoDevices /\ mod = ModIdle

\* the state __init__ leaves, on a device with no byte under way
Constructed(p, e, levels, i) ==
    Ready(DeviceAfterInit(p, e, levels, i), FALSE,
          [x \in AllPorts(p) |-> "0"], [x \in AllPorts(p) |-> NoEdge])

\* the levels at the input pins and the id of the devices considered
PinLevels == {{1}}
DeviceIds == {{0, 5}}

\* the devices of Spec: 8 ports with LF, 16 ports with CR LF
Devices == {<<8, <<LF>>>>, <<16, <<CR, LF>>>>}

Init ==
    \E d \in Devices, lv \in PinLevels, i \in DeviceIds :
        Constructed(d[1], d[2], lv, i)

\* the applications have started fewer than MaxOps operations; of two
\* threads that have not called yet, "t1" is the one that calls first
More(t) ==
    /\ Len(trace) < MaxOps
    /\ t = "t1" \/ res["t1"].st # "idle"

Call_setup ==
    \E t \in Callers, port \in {0, ports}, d \in {OUT, IN_} :
        More(t) /\ setup(t, port, d)
Call_write ==
    \E t \in Callers, port \in {0, ports} : More(t) /\ write(t, port, 1)
Call_read == \E t \in Callers, port \in {1, ports} : More(t) /\ read(t, port)
Call_readall == \E t \in Callers : More(t) /\ readall(t)
Call_writeall == \E t \in Callers : More(t) /\ writeall(t, {0, 1})
Call_iodir ==
    \E t \in Callers, d \in {{}, MASK_ALL_PORTS} : More(t) /\ iodir_set(t, d)
Call_iomask == \E t \in Callers : More(t) /\ iomask_set(t, {0})
Call_notify ==
    \E t \in Callers, enable \in BOOLEAN : More(t) /\ notify_set(t, enable)
Call_id == \E t \in Callers : More(t) /\ id_set(t, {1})
Call_adc_read == \E t \in Callers, a \in {4} : More(t) /\ adc_read(t, a)
Call_add_event_detect ==
    \E t \in Callers : More(t) /\ add_event_detect(t, 1, "mock", BOTH)
Call_remove_event_detect ==
    \E t \in Callers : More(t) /\ remove_event_detect(t, 1)
Call_cleanup == \E t \in Callers : More(t) /\ cleanup(t)

\* a thread does the next step of its operation
ExchangeStep(t) ==
    \/ Send(t)
    \/ ReadString(t)
    \/ ReadInt(t)
    \/ Assign(t)
    \/ Release(t)
    \/ Return(t)

ThreadStep(t) ==
    \/ ExchangeStep(t)
    \/ ReadUntil(t)
    \/ AdcParse(t)
    \/ AssignEdge(t)
    \/ Close(t)

\* the poller thread does its next step
PollStep ==
    \/ PollTop
    \/ PollSecond
    \/ PollThird
    \/ PollFrame
    \/ PollSelect
    \/ PollCall

Next ==
    \/ Call_setup
    \/ Call_write
    \/ Call_read
    \/ Call_readall
    \/ Call_writeall
    \/ Call_iodir
    \/ Call_iomask
    \/ Call_notify
    \/ Call_id
    \/ Call_adc_read
    \/ Call_add_event_detect
    \/ Call_remove_event_detect
    \/ Call_cleanup
    \/ \E t \in Threads : ThreadStep(t)
    \/ PollStep
    \/ DeviceNotify(PinChanges)

Spec == Init /\ [][Next]_vars

----------------------------------------------------------------------------
(* Properties of the command exchange and of the hand-off buffer           *)

\* thread t's next step is a _read: it waits for, or takes, bytes of _buf
IsTake(t) ==
    prog[t] # <<>> /\ Head(prog[t]).k \in {"echo", "expect", "readint", "until"}

\* the number of bytes that _read asks for
Requested(t) ==
    LET st == Head(prog[t])
    IN  CASE st.k = "echo" -> Len(st.s) + Len(eol)
          [] st.k = "expect" -> Len(st.s)
          [] st.k = "readint" -> st.n
          [] st.k = "until" -> 1

\* thread t does a step in which it writes a query or takes bytes
UsesWire(t) ==
    /\ prog'[t] # prog[t]
    /\ At(t, "send") \/ IsTake(t)

\* the operations that exchange a query and a response with the device
ExchangeOps ==
    {"setup", "write", "read", "readall", "writeall", "iodir", "iomask",
     "notify", "id", "adc_read", "cleanup"}

\* C1: while a caller thread has written a query and not yet consumed its
\* echo and response (its next step is a take), no other caller thread
\* writes a query or takes bytes from the hand-off buffer; so at most one
\* exchange is in flight
C1_OneExchangeInFlight ==
    [][\A t \in Callers : \A u \in Callers \ {t} :
          /\ IsTake(t) => ~UsesWire(u)
          /\ ~(IsTake(t) /\ IsTake(u))]_vars

\* an exchange of one caller is in flight after the other caller has
\* completed an exchange of its own
C1_Witness ==
    \E t \in Callers : \E u \in Callers \ {t} :
        /\ IsTake(t) /\ rx # <<>>
        /\ res[u].st = "done" /\ res[u].op \in ExchangeOps
        /\ \E i \in 1..Len(rx) : rx[i].n > ntaken + Len(buf) + Len(q)
        /\ ntaken > 0

\* the hand-off buffer holds, in the order of their arrival, exactly the
\* bytes appended and not yet taken
FifoOrder ==
    /\ Len(buf) = nappended - ntaken
    /\ \A i \in 1..Len(buf) : buf[i].a = ntaken + i

\* a step that takes bytes finds at least the n bytes it asks for and
\* removes exactly the first n
TakeExactly ==
    \A t \in Threads :
        (IsTake(t) /\ prog'[t] # prog[t]) =>
            /\ Len(buf) >= Requested(t)
            /\ ntaken' = ntaken + Requested(t)
            /\ buf' = SubSeq(buf, Requested(t) + 1, Len(buf))

\* C5: the hand-off buffer is a FIFO: the bytes taken so far are the first
\* ntaken bytes appended, in their order; take(n) returns only when n bytes
\* are buffered and removes exactly these n in one step
C5_HandoffFifo == [](FifoOrder) /\ [][TakeExactly]_vars

\* a caller has taken bytes and waits for more while bytes are buffered and
\* the poller has further bytes to append
C5_Witness ==
    /\ \E t \in Callers : IsTake(t)
    /\ ntaken > 0 /\ Len(buf) >= 2 /\ rx # <<>>

----------------------------------------------------------------------------
(* One application thread that calls one operation after the other, on a   *)
(* 32 port device                                                          *)

InitSeq == Constructed(32, <<LF, CR>>, {4}, {0, 5})

MoreSeq == Len(trace) < MaxSeqOps

Seq_setup == \E d \in {OUT, IN_} : MoreSeq /\ setup("t1", 4, d)
Seq_write ==
    \E port \in {4, 31}, v \in {0, 1} : MoreSeq /\ write("t1", port, v)
Seq_read == MoreSeq /\ read("t1", 4)
Seq_iodir == MoreSeq /\ iodir_set("t1", {})

NextSeq ==
    \/ Seq_setup
    \/ Seq_write
    \/ Seq_read
    \/ Seq_iodir
    \/ ExchangeStep("t1")
    \/ PollTop
    \/ PollSecond
    \/ PollThird

SpecSeq == InitSeq /\ [][NextSeq]_vars

\* the call made last, and the step in which thread "t1" calls write(port, v)
\* with a port in the range
LastCall == trace[Len(trace)]
WriteCall(port, v) ==
    /\ trace' # trace
    /\ trace'[Len(trace')].op = "write"
    /\ trace'[Len(trace')].port = port
    /\ trace'[Len(trace')].n = v
    /\ InRange(port)

\* an operation that has neither returned nor raised
Pending(t) == res[t].st = "run"

\* a write to an input port raises the direction error, queues no command
\* and leaves _state alone; a write to an output port is accepted
WriteStep ==
    \A port \in 0..31, v \in {0, 1} :
        WriteCall(port, v) =>
            IF port \in iodir
            THEN /\ res'["t1"].st = "raised" /\ res'["t1"].err = "iodir"
                 /\ prog'["t1"] = <<>>
                 /\ state' = state /\ rx' = rx /\ nsent' = nsent
            ELSE Pending("t1")'

\* where writes are refused and where not
WriteRefusals ==
    /\ trace = <<>> => \A port \in AllPorts(ports) : write_refuses(port)
    /\ (trace # <<>> /\ res["t1"].st = "done") =>
          /\ (LastCall.op = "setup" /\ LastCall.n # 0) =>
                 write_refuses(LastCall.port)
          /\ (LastCall.op = "iodir" /\ LastCall.arg = {}) =>
                 \A port \in AllPorts(ports) : ~write_refuses(port)
    /\ (trace # <<>> /\ LastCall.op = "write" /\ InRange(LastCall.port)
        /\ res["t1"].st = "raised") => res["t1"].err = "iodir"

WriteOneBit ==
    \A port \in 0..31, v \in {0, 1} :
        (WriteCall(port, v) /\ port \notin iodir) =>
            /\ port \in state' <=> v # 0
            /\ \A x \in AllPorts(ports) \ (iodir \cup {port}) :
                  x \in state' <=> x \in state
            /\ Head(prog'["t1"]) =
                  SendStep(Q_writeall \o FormatHex(state', HEX_DIGITS))

\* the calls of the scenario: setup(4, OUT) or iodir = 0 with write(31, 1),
\* then write(4, 1) or none, write(4, 0) and read(4)
Scenario(first) ==
    /\ Len(trace) = 4
    /\ trace[1].op = first
    /\ trace[Len(trace) - 1].op = "write" /\ trace[Len(trace) - 1].port = 4
    /\ trace[Len(trace) - 1].n = 0
    /\ trace[Len(trace)].op = "read"
    /\ res["t1"].st = "done"

ScenarioSetup ==
    /\ Scenario("setup") /\ trace[1].n = OUT
    /\ trace[2].op = "write" /\ trace[2].port = 4 /\ trace[2].n = 1

ScenarioOthers ==
    /\ Scenario("iodir")
    /\ trace[2].op = "write" /\ trace[2].port = 31 /\ trace[2].n = 1

\* C9: write(port, v) on an output port changes only bit port of the value
\* stored and sent; after setup(4, OUT), write(4, 1), write(4, 0), read(4)
\* returns 0, and an output bit set before is still set in what readall read
C9_WriteChangesOneBit ==
    /\ [][WriteOneBit]_vars
    /\ [](ScenarioSetup => res["t1"].num = 0)
    /\ [](ScenarioOthers => (res["t1"].num = 0 /\ 31 \in state))

\* the scenario has run, on a device whose pin 4 was high before
C9_Witness == ScenarioSetup /\ 4 \notin dev.levels /\ 4 \notin state

----------------------------------------------------------------------------
(* Notifications: a 16 port device on which the application has enabled    *)
(* notifications and registered callbacks, and calls readall               *)

\* the registrations: every port with BOTH; or, in turn, RISING, FALLING,
\* BOTH and none, where port 3 had a callback that was removed
AllBoth == [x \in AllPorts(16) |-> BOTH]
Mixed ==
    [x \in AllPorts(16) |->
        CASE x % 4 = 0 -> RISING
          [] x % 4 = 1 -> FALLING
          [] x % 4 = 2 -> BOTH
          [] OTHER -> NoEdge]
CallbacksOf(edges) ==
    [x \in AllPorts(16) |->
        IF edges[x] # NoEdge THEN "mock" ELSE IF x = 3 THEN "None" ELSE "0"]

InitNotify ==
    \E e \in {<<CR, LF>>, <<LF>>}, edges \in {AllBoth, Mixed} :
        Ready([DeviceAfterInit(16, e, {1}, {0, 5}) EXCEPT !.notify = TRUE],
              TRUE, CallbacksOf(edges), edges)

Notify_readall == trace = <<>> /\ readall("t1")

NextNotify ==
    \/ Notify_readall
    \/ ExchangeStep("t1")
    \/ PollStep
    \/ DeviceNotify(FramePairs)

SpecNotify == InitNotify /\ [][NextNotify]_vars

\* the poller has done with frame k
Handled(k) == pf > k \/ (pf = k /\ ppc \in {"top", "second", "third"})

\* C2: with notifications enabled and a frame at any place of the echo and
\* the response of gpio readall, no byte of a frame is in the hand-off
\* buffer, the ordinary bytes come through in the order the device sent
\* them, none lost and none twice, and readall raises no error and returns
\* the levels the device reported
C2_FrameKeptOutOfResponse ==
    /\ \A i \in 1..Len(buf) : buf[i].f = 0 /\ buf[i].n = ntaken + i
    /\ \A t \in Callers :
          /\ res[t].st # "raised"
          /\ res[t].st = "done" => res[t].val = dev.levels

\* the length of the echo and the response of gpio readall
ReadallLen == Len(DevRespond(dev, Q_readall \o <<CR>>))

\* readall has returned, its response had a frame inside the hexadecimal
\* value, and the poller has handled the frame
C2_Witness ==
    /\ res["t1"].st = "done"
    /\ \E k \in 1..Len(frames) :
          /\ frames[k].at \in
                (ReadallLen - Len(eol) - 4)..(ReadallLen - Len(eol) - 2)
          /\ Handled(k)

\* the edge filter of port x matches the level the frame reports
FilterMatches(x, frame) ==
    IF x \in frame.cur THEN edge[x] \in {RISING, BOTH}
    ELSE edge[x] \in {FALLING, BOTH}

\* the callback invocations for port x made for frame k
CallsFor(k, x) ==
    {i \in 1..Len(calls) : calls[i].f = k /\ calls[i].port = x}

\* C3: for every frame and every port whose bit differs between the current
\* and the previous value and whose edge filter matches, the callback is
\* invoked exactly once, with the port and its new level; for no other port
\* it is invoked; with BOTH on every port and a frame from all zeros to all
\* ones every port is called with True
C3_CallbackOncePerEdge ==
    \A k \in 1..Len(frames) : \A x \in AllPorts(ports) :
        LET wanted == /\ x \in Xor(frames[k].cur, frames[k].prev)
                      /\ FilterMatches(x, frames[k])
        IN  /\ Cardinality(CallsFor(k, x)) <= (IF wanted THEN 1 ELSE 0)
            /\ (wanted /\ Handled(k)) => Cardinality(CallsFor(k, x)) = 1
            /\ \A i \in CallsFor(k, x) :
                  calls[i].level = (x \in frames[k].cur)

\* with BOTH on every port, a frame from all zeros to all ones has been
\* handled and every port was called with True
C3_Witness ==
    /\ edge = AllBoth
    /\ \E k \in 1..Len(frames) :
          /\ frames[k].cur = AllPorts(16) /\ frames[k].prev = {}
          /\ Handled(k)
          /\ \A x \in AllPorts(16) :
                \E i \in CallsFor(k, x) : calls[i].level = TRUE

----------------------------------------------------------------------------
(* Progress: a 16 port device with port 0 set up as output, notifications  *)
(* enabled and, on port 1, a callback that writes the new level of port 1  *)
(* to port 0.  The threads are scheduled fairly: a thread that can do a    *)
(* step does it in the end.  The link to the device may break.             *)

InitLive ==
    \E e \in {<<CR, LF>>, <<LF>>} :
        Ready([DeviceAfterInit(16, e, {1}, {0, 5}) EXCEPT
                  !.notify = TRUE, !.iodir = AllPorts(16) \ {0},
                  !.iomask = {0}],
              TRUE,
              [x \in AllPorts(16) |-> IF x = 1 THEN "toggle" ELSE "0"],
              [x \in AllPorts(16) |-> IF x = 1 THEN BOTH ELSE NoEdge])

Live_readall == trace = <<>> /\ readall("t1")

NextLive ==
    \/ Live_readall
    \/ \E t \in {"t1", Poller} : ExchangeStep(t)
    \/ PollStep
    \/ DeviceNotify(PinChanges)
    \/ Unplug

Fairness ==
    /\ WF_vars(ExchangeStep("t1"))
    /\ WF_vars(ExchangeStep(Poller))
    /\ WF_vars(PollStep)

SpecLive == InitLive /\ [][NextLive]_vars /\ Fairness

\* thread t waits in _read for bytes the hand-off buffer does not hold
Blocked(t) == IsTake(t) /\ Len(buf) < Requested(t)

\* the poller thread has ended
PollerEnded == ppc \in {"done", "dead"}

\* C4: a caller that is blocked in the take of the hand-off buffer when the
\* poller has ended is released in the end, with a failure
C4_BlockedTakeReleased ==
    (Blocked("t1") /\ PollerEnded) ~> (res["t1"].st = "raised")

\* C6: a callback that calls write of its own session returns in the end
\* and the poller goes on reading, unless the link breaks
C6_CallbackReenters ==
    (ppc = "call" /\ ~fault) ~>
        (fault \/ (ppc = "top" /\ res[Poller].st = "done"))

----------------------------------------------------------------------------
(* Construction: __init__ on a device of any port count and end of line,   *)
(* in whatever state its last user left it.  No other thread has the       *)
(* session before __init__ returns, so its locks are left out.             *)

\* attributes that __init__ has not assigned yet
Unset == {-1}

\* what __init__ does after the port count is known: id, ver, iodir and
\* notify
CtorRest ==
    _read_int(Q_id_get, 32) \o <<Step("set", <<>>, {}, 0, "id_read")>> \o
    _read_int(Q_ver, 32) \o
    iodir_setter(MASK_ALL_PORTS) \o
    (IF can_notify
     THEN notify_query(FALSE) \o <<SetFlagStep("notify", FALSE)>>
     ELSE <<>>) \o
    <<RetStep("none")>>

\* _detect_eol after its check of _notify: assume CR LF, write id get, read
\* up to the prompt, adopt the end of line found
detect_eol_steps ==
    <<Step("set", <<CR, LF>>, {}, 0, "eol"),
      SendStep(Q_id_get), UntilStep(Prompt),
      Step("detect", <<>>, {}, 0, "")>>

\* a detection that does not look at _notify
detect_refuses_never == FALSE

\* _detect_eol refuses when _notify exists and is true
detect_refuses == notify

\* _detect_eol() called on the constructed session
_detect_eol(t) ==
    /\ CanStart(t)
    /\ Called(t, "_detect_eol", 0, 0, {})
    /\ IF detect_refuses
       THEN Refuse(t, "_detect_eol", 0, 0, {}, "notify")
       ELSE Enter(t, "_detect_eol", 0, 0, {},
                  detect_eol_steps \o <<RelStep, RetStep("none")>>)
    /\ UNCHANGED <<devVars, modVars, sessVars, regVars, buf, pollVars, histVars>>

\* a constructor that starts the poller before it drains the port
CtorProgramPollerFirst ==
    <<SendStep(Q_notify_off),
      Step("start", <<>>, {}, 0, ""),
      Step("drain", <<>>, {}, 0, "")>> \o
    detect_eol_steps \o
    <<SendStep(Q_readall), EchoStep(Q_readall),
      UntilEolStep, UntilDiscardStep(Prompt),
      Step("ports", <<>>, {}, 0, ""),
      Step("attrs", <<>>, {}, 0, "")>>

\* __init__ up to the assignment of _callback and _edge
CtorProgram ==
    <<SendStep(Q_notify_off),
      Step("drain", <<>>, {}, 0, ""),
      Step("start", <<>>, {}, 0, "")>> \o
    detect_eol_steps \o
    <<SendStep(Q_readall), EchoStep(Q_readall),
      UntilEolStep, UntilDiscardStep(Prompt),
      Step("ports", <<>>, {}, 0, ""),
      Step("attrs", <<>>, {}, 0, "")>>

\* _drain_ser_buffer(): reads until a read times out
Drain(t) ==
    /\ At(t, "drain")
    /\ rx' = <<>>
    /\ Pop(t)
    /\ UNCHANGED <<is_open, fault, modVars, dev, nsent, frames, sessVars, regVars,
                   buf, rw_lock, resp, res, trace, pollVars, histVars>>

\* _poll_thread.start()
StartPoller(t) ==
    /\ At(t, "start")
    /\ ppc' = "top"
    /\ q' = <<>>
    /\ Pop(t)
    /\ UNCHANGED <<devVars, modVars, sessVars, regVars, buf, rw_lock, resp, res,
                   trace, cur, prev, dport, histVars>>

\* a detection that always adopts both characters before the prompt
DetectEolTwo(t) ==
    /\ At(t, "detect")
    /\ eol' = SubSeq(Chars(resp[t]), Len(resp[t]) - 2, Len(resp[t]) - 1)
    /\ Pop(t)
    /\ UNCHANGED <<devVars, modVars, ports, iodir, iomask, state, notify, id,
                   regVars, buf, rw_lock, resp, res, trace, pollVars,
                   histVars>>

\* _detect_eol: eol = response[-3:-1]; if eol[0] is neither CR nor LF then
\* eol = eol[1]
DetectEol(t) ==
    /\ At(t, "detect")
    /\ LET r == Chars(resp[t])
           two == SubSeq(r, Max({1, Len(r) - 2}), Len(r) - 1)
       IN  IF Len(two) < 2
           THEN Raise(t, "index") /\ UNCHANGED eol
           ELSE /\ eol' = IF two[1] \notin {CR, LF} THEN <<two[2]>> ELSE two
                /\ Pop(t)
                /\ UNCHANGED <<rw_lock, res>>
    /\ UNCHANGED <<devVars, modVars, ports, iodir, iomask, state, notify, id,
                   regVars, buf, resp, trace, pollVars, histVars>>

\* the ports property: hex_digits = len(response) - len(_eol);
\* _ports = hex_digits * 4
SetPorts(t) ==
    /\ At(t, "ports")
    /\ ports' = (Len(resp[t]) - Len(eol)) * 4
    /\ Pop(t)
    /\ UNCHANGED <<devVars, modVars, eol, iodir, iomask, state, notify, id, regVars,
                   buf, rw_lock, resp, res, trace, pollVars, histVars>>

\* _MASK_ALL_PORTS, _HEX_DIGITS, _callback and _edge are assigned
InitAttrs(t) ==
    /\ At(t, "attrs")
    /\ callback' = [x \in AllPorts(ports) |-> "0"]
    /\ edge' = [x \in AllPorts(ports) |-> NoEdge]
    /\ prog' = [prog EXCEPT ![t] = CtorRest]
    /\ UNCHANGED <<devVars, modVars, sessVars, buf, rw_lock, resp, res, trace,
                   pollVars, histVars>>

\* the states the last user may have left the device in
DeviceBefore(p, e, used) ==
    [ports |-> p, eol |-> e,
     iodir |-> IF used THEN {} ELSE AllPorts(p),
     iomask |-> {},
     levels |-> {1},
     notify |-> used /\ DevSupportsNotification(p),
     id |-> {0, 5},
     ver |-> DevVersion,
     caps |-> FALSE,
     wire |-> <<>>]

\* bytes of an earlier session that the port may still hold
StaleBytes == {<<>>, <<"0", ">">>}

\* __init__ after serial.Serial(...) has opened the port: _state is 0, _buf
\* is empty, the poller is not started, and no other attribute exists yet
\* (notify starts at the value __init__ must not leave it at)
CtorStart(d, stale) ==
    /\ rx = Ordinary(stale, 0) /\ is_open = TRUE /\ fault = FALSE
    /\ dev = d
    /\ nsent = Len(stale) /\ frames = <<>>
    /\ ports = 0 /\ eol = <<>>
    /\ iodir = Unset /\ iomask = Unset /\ state = {}
    /\ notify = DevSupportsNotification(d.ports) /\ id = Unset
    /\ callback = <<>> /\ edge = <<>>
    /\ buf = <<>> /\ q = <<>>
    /\ rw_lock = NoThread
    /\ prog = [t \in Threads |-> IF t = "t1" THEN CtorProgram ELSE <<>>]
    /\ resp = [t \in Threads |-> <<>>]
    /\ res = [t \in Threads |->
                IF t = "t1" THEN Running("__init__", 0, 0, {}) ELSE Idle]
    /\ trace = <<[t |-> "t1", op |-> "__init__", port |-> 0, n |-> 0,
                  arg |-> {}]>>
    /\ ppc = "off" /\ cur = {} /\ prev = {} /\ dport = 0
    /\ pf = 0 /\ calls = <<>> /\ nappended = 0 /\ ntaken = 0
    /\ devices = NoDevices /\ mod = ModIdle

InitCtor ==
    \E p \in PortCounts, e \in EolSeqs, used \in BOOLEAN,
       stale \in StaleBytes :
        CtorStart(DeviceBefore(p, e, used), stale)

NextCtor ==
    \/ Send("t1")
    \/ ReadString("t1")
    \/ ReadInt("t1")
    \/ ReadUntil("t1")
    \/ Assign("t1")
    \/ Drain("t1")
    \/ StartPoller("t1")
    \/ DetectEol("t1")
    \/ SetPorts("t1")
    \/ InitAttrs("t1")
    \/ Return("t1")
    \/ PollTop
    \/ PollSecond
    \/ PollThird

SpecCtor == InitCtor /\ [][NextCtor]_vars

\* __init__ has returned
Returned == res["t1"].op = "__init__" /\ res["t1"].st = "done"

\* C7: for every port count p of 8, 16, 32, 64 and 128, when __init__ has
\* returned, ports is p, the cached iodir is all ones, the cached iomask is
\* its complement within p bits, and notify is false on a device that
\* supports notifications
C7_StateAfterConstruction ==
    Returned =>
        /\ ports = dev.ports
        /\ iodir = AllPorts(dev.ports)
        /\ iomask = AllPorts(dev.ports) \ iodir
        /\ DevSupportsNotification(dev.ports) => notify = FALSE

\* __init__ has returned on a 128 port device whose end of line is LF CR,
\* after more than 200 bytes went from the device through the poller and the
\* hand-off buffer to __init__
C7_Witness ==
    /\ Returned
    /\ dev.ports = 128 /\ dev.eol = <<LF, CR>>
    /\ nsent > 200 /\ ntaken > 200

\* the session and the device agree after __init__, which never fails
CtorAgrees ==
    /\ res["t1"].st # "raised"
    /\ Returned =>
          /\ eol = dev.eol /\ id = dev.id
          /\ dev.iodir = iodir /\ dev.iomask = iomask /\ ~dev.notify
          /\ buf = <<>> /\ rx = <<>>

\* C10: on the 8 port device notify = True and add_event_detect fail with a
\* notify-not-supported error, register nothing and send nothing; on the
\* other devices both succeed (on an open port)
C10_NotifyNotSupported ==
    /\ \A t \in Callers :
          LET r == res[t]
              asked == \/ r.op = "notify" /\ r.n = 1
                       \/ r.op = "add_event_detect" /\ InRange(r.port)
          IN  (asked /\ r.st \in {"done", "raised"}) =>
                  IF ports = 8
                  THEN r.st = "raised" /\ r.err = "notsupported"
                  ELSE r.st = "done" \/ r.err = "serial"
    /\ ports = 8 =>
          /\ \A x \in AllPorts(ports) : callback[x] = "0" /\ edge[x] = NoEdge
          /\ ~dev.notify

\* on the devices with more than 8 ports both operations succeed
C10_OthersSucceed ==
    \A t \in Callers :
        LET r == res[t]
        IN  (/\ ports # 8
             /\ r.op \in {"notify", "add_event_detect"}
             /\ r.op = "add_event_detect" => InRange(r.port))
            => (r.st = "raised" => r.err = "serial")

----------------------------------------------------------------------------
(* Loopback: one application thread on an 8 port device sets every port    *)
(* up as output with iodir = 0, writes a value with writeall and reads it  *)
(* back with readall                                                       *)

InitLoop == Constructed(8, <<CR, LF>>, {1}, {0, 5})

Loop_iodir == trace = <<>> /\ iodir_set("t1", {})
Loop_writeall ==
    \E x \in SUBSET AllPorts(8) : Len(trace) = 1 /\ writeall("t1", x)
Loop_readall == Len(trace) = 2 /\ readall("t1")

NextLoop ==
    \/ Loop_iodir
    \/ Loop_writeall
    \/ Loop_readall
    \/ ExchangeStep("t1")
    \/ PollTop
    \/ PollSecond
    \/ PollThird

SpecLoop == InitLoop /\ [][NextLoop]_vars

\* C11: on a session with iodir = 0, writeall(x) followed by readall()
\* returns x, for every x from 0 to 2^ports - 1; none of the three
\* operations raises
C11_Loopback ==
    /\ res["t1"].st # "raised"
    /\ (Len(trace) = 3 /\ res["t1"].st = "done") =>
          /\ res["t1"].val = trace[2].arg
          /\ state = trace[2].arg
          /\ dev.levels = trace[2].arg

\* readall has returned after writeall(0xa5)
C11_Witness ==
    /\ Len(trace) = 3 /\ res["t1"].st = "done"
    /\ trace[1].op = "iodir" /\ trace[2].op = "writeall"
    /\ trace[3].op = "readall"
    /\ trace[2].arg = {0, 2, 5, 7}
    /\ iodir = {}

----------------------------------------------------------------------------
(* The end of line of the device, detected by __init__ *)

\* _detect_eol has assigned _eol
Detected ==
    /\ ppc # "off"
    /\ \A i \in 1..Len(prog["t1"]) : prog["t1"][i].k # "detect"

\* C12: for a device whose end of line is CR LF, LF CR, CR or LF, the
\* detection adopts exactly the device's sequence, and no comparison of an
\* echo or a response that __init__ makes afterwards fails
C12_EolDetected ==
    /\ res["t1"].st # "raised"
    /\ Detected => eol = dev.eol

\* __init__ has returned on a 16 port device whose end of line is the single
\* character CR, after the echo and response comparisons of readall, id,
\* ver, iomask, iodir and notify
C12_Witness ==
    /\ Returned /\ Detected
    /\ dev.ports = 16 /\ dev.eol = <<CR>> /\ eol = <<CR>>
    /\ iodir = AllPorts(16) /\ notify = FALSE

----------------------------------------------------------------------------
(* Arguments: one application thread calls operations with ports inside    *)
(* and outside the range of the device, on an 8 and on a 32 port device    *)

\* operations the caller of SpecArgs starts in one behaviour
MaxArgOps == 2

InitArgs ==
    \E d \in {<<8, <<LF>>>>, <<32, <<CR, LF>>>>} :
        Constructed(d[1], d[2], {1}, {0, 5})

MoreArgs == Len(trace) < MaxArgOps

Args_setup == \E port \in {-1, 0, ports} : MoreArgs /\ setup("t1", port, OUT)
Args_write == \E port \in {-1, 0, ports} : MoreArgs /\ write("t1", port, 1)
Args_read ==
    \E port \in {-1, ports - 1, ports} : MoreArgs /\ read("t1", port)
Args_adc_read == \E a \in {0, 4, 8} : MoreArgs /\ adc_read("t1", a)

NextArgs ==
    \/ Args_setup
    \/ Args_write
    \/ Args_read
    \/ Args_adc_read
    \/ ExchangeStep("t1")
    \/ ReadUntil("t1")
    \/ AdcParse("t1")
    \/ PollTop
    \/ PollSecond
    \/ PollThird

SpecArgs == InitArgs /\ [][NextArgs]_vars

\* the step in which operation op is called with the port argument port
CallOf(op, port) ==
    /\ trace' # trace
    /\ trace'[Len(trace')].op = op
    /\ trace'[Len(trace')].port = port

\* the step has raised err in thread "t1" and has done nothing else: no
\* command is written and no attribute of the session changes
RaisedOnly(err) ==
    /\ res'["t1"].st = "raised" /\ res'["t1"].err = err
    /\ prog'["t1"] = <<>> /\ rw_lock' = rw_lock
    /\ rx' = rx /\ nsent' = nsent /\ dev' = dev
    /\ sessVars' = sessVars /\ regVars' = regVars

\* the ADC capable ports of the devices, by port count
AdcCapable(p) ==
    CASE p = 8 -> {0, 1, 2, 3, 6, 7}
      [] p = 16 -> 0..6
      [] p = 32 -> 1..7
      [] OTHER -> 0..31

\* C13: adc_read(p) with p not among the ADC capable ports of the device
\* raises the ADC port error before any query is written and changes no
\* attribute of the session; with an ADC capable port it starts its query
C13_AdcPortChecked ==
    [][\A a \in -1..40 :
          CallOf("adc_read", a) =>
              IF a \notin AdcCapable(ports)
              THEN RaisedOnly("adc")
              ELSE res'["t1"].st = "run" /\ rw_lock' = "t1"]_vars

\* adc_read(0) was refused on the 32 port device after adc_read(4) has
\* returned a value
C13_Witness ==
    /\ ports = 32 /\ Len(trace) = 2
    /\ trace[1].op = "adc_read" /\ trace[1].port = 4
    /\ trace[2].op = "adc_read" /\ trace[2].port = 0
    /\ res["t1"].st = "raised" /\ res["t1"].err = "adc"
    /\ nsent > 0 /\ rx = <<>> /\ buf = <<>>

\* C14: setup, write and read with a port outside 0..ports-1 raise the
\* port-out-of-range error before any command is written and leave iodir,
\* iomask and state (and every other attribute) as they are
C14_PortRangeChecked ==
    [][\A op \in {"setup", "write", "read"}, port \in -1..40 :
          (CallOf(op, port) /\ port \notin 0..(ports - 1)) =>
              RaisedOnly("range")]_vars

\* after setup(0, OUT) has made port 0 an output, a write to the port
\* behind the last one was refused with the range error
C14_Witness ==
    /\ Len(trace) = 2
    /\ trace[1].op = "setup" /\ trace[1].port = 0
    /\ trace[2].op = "write" /\ trace[2].port = ports
    /\ res["t1"].st = "raised" /\ res["t1"].err = "range"
    /\ iodir = AllPorts(ports) \ {0} /\ nsent > 0

----------------------------------------------------------------------------
(* Cleanup: on a device of every port count the application thread may     *)
(* make all ports outputs or enable notifications, and then calls cleanup  *)

InitClean ==
    \E p \in PortCounts, e \in {<<CR, LF>>, <<LF>>} :
        Constructed(p, e, {1}, {0, 5})

Clean_iodir == trace = <<>> /\ iodir_set("t1", {})
Clean_notify == trace = <<>> /\ notify_set("t1", TRUE)
Clean_cleanup ==
    /\ \A i \in 1..Len(trace) : trace[i].op # "cleanup"
    /\ cleanup("t1")

NextClean ==
    \/ Clean_iodir
    \/ Clean_notify
    \/ Clean_cleanup
    \/ Send("t1")
    \/ ReadString("t1")
    \/ Assign("t1")
    \/ Close("t1")
    \/ Release("t1")
    \/ Return("t1")
    \/ PollTop
    \/ PollSecond
    \/ PollThird

SpecClean == InitClean /\ [][NextClean]_vars

\* cleanup has returned
CleanedUp == res["t1"].op = "cleanup" /\ res["t1"].st = "done"

\* C15: for every port count, cleanup after construction raises no error,
\* and when it has returned the device has all ports as inputs and its
\* notifications off, the port is closed and the poller thread has ended
C15_CleanupCompletes ==
    /\ res["t1"].st # "raised"
    /\ CleanedUp =>
          /\ dev.iodir = AllPorts(dev.ports)
          /\ ~dev.notify
          /\ ~is_open
          /\ ppc \in {"done", "dead"}

\* all that C15 says except that the poller thread has ended when cleanup
\* returns
C15_DeviceSafeAndClosed ==
    /\ res["t1"].st # "raised"
    /\ CleanedUp =>
          /\ dev.iodir = AllPorts(dev.ports) /\ iodir = dev.iodir
          /\ dev.iomask = {} /\ iomask = {}
          /\ ~dev.notify /\ ~notify
          /\ ~is_open

----------------------------------------------------------------------------
(* Failure of the link: on a 16 port device thread "t1" may be in readall  *)
(* when the link breaks; after the break thread "t2" calls readall, which  *)
(* first has to get _rw_lock.  The threads are scheduled fairly.           *)

InitFail == Constructed(16, <<CR, LF>>, {1}, {0, 5})

Fail_readall == trace = <<>> /\ ~fault /\ readall("t1")

\* thread "t2" calls readall after the failure and arrives at its
\* `with self._rw_lock`
Invoke ==
    /\ fault
    /\ res["t2"].st = "idle"
    /\ res' = [res EXCEPT !["t2"] =
                  [Running("readall", 0, 0, {}) EXCEPT !.st = "wait"]]
    /\ UNCHANGED <<devVars, modVars, sessVars, regVars, buf, rw_lock, prog, resp,
                   trace, pollVars, histVars>>

\* thread "t2" gets the lock and goes on
Proceed == res["t2"].st = "wait" /\ readall("t2")

NextFail ==
    \/ Fail_readall
    \/ Unplug
    \/ Invoke
    \/ Proceed
    \/ \E t \in Callers : ExchangeStep(t)
    \/ PollTop
    \/ PollSecond
    \/ PollThird

FairnessFail ==
    /\ WF_vars(ExchangeStep("t1"))
    /\ WF_vars(ExchangeStep("t2"))
    /\ WF_vars(Proceed)
    /\ WF_vars(PollTop \/ PollSecond \/ PollThird)

SpecFail == InitFail /\ [][NextFail]_vars /\ FairnessFail

\* C16: after a failure of the link the port is closed in the end, and an
\* operation called after the failure ends with an error
C16_FailsFast ==
    /\ fault ~> ~is_open
    /\ (res["t2"].st = "wait") ~> (res["t2"].st = "raised")

\* after a failure the port is closed in the end, and an operation that got
\* the lock after the failure raises the serial error without blocking
C16_ClosedAndRaises ==
    /\ fault ~> ~is_open
    /\ (res["t2"].st = "run") ~>
          (res["t2"].st = "raised" /\ res["t2"].err = "serial")

----------------------------------------------------------------------------
(* Probing: __init__ on a device that answers like a Numato device and on  *)
(* one that answers `ver` with a text that is no hexadecimal number        *)

\* a version text that int(response, 16) does not accept
OddVersion == <<"A","0","M","1","6",".","0","5">>

InitProbe ==
    \E p \in {8, 16}, e \in {<<CR, LF>>, <<CR>>},
       v \in {DevVersion, OddVersion} :
        CtorStart([DeviceBefore(p, e, FALSE) EXCEPT !.ver = v], <<>>)

SpecProbe == InitProbe /\ [][NextCtor]_vars

\* __init__ has raised its error
ProbeFailed == res["t1"].op = "__init__" /\ res["t1"].st = "raised"

\* C17: when a probing step of __init__ fails, __init__ raises and leaves
\* the port closed (whereupon the poller thread ends)
C17_ProbeFailureCloses == ProbeFailed => ~is_open

\* __init__ fails exactly on the device with the odd version text, when it
\* reads the version
C17_FailsOnOddVersion ==
    /\ ProbeFailed => (dev.ver = OddVersion /\ id = dev.id /\ iodir = Unset)
    /\ Returned => dev.ver = DevVersion

----------------------------------------------------------------------------
(* The functions of the module: the table of the device types and the      *)
(* dict of the discovered devices                                          *)

\* DeviceSpec(ports, supports_notification, adc_resolution_bits,
\* adc_port_digits, adc_ports), with the keys of adc_ports as a set
DeviceSpec(p, sn, bits, dgts, adc) ==
    [ports |-> p, supports_notification |-> sn, adc_resolution_bits |-> bits,
     adc_port_digits |-> dgts, adc_ports |-> adc]

\* the values of the enumeration DeviceType
DeviceType ==
    {DeviceSpec(8, FALSE, 10, 1, {0, 1, 2, 3, 6, 7}),
     DeviceSpec(16, TRUE, 10, 1, 0..6),
     DeviceSpec(32, FALSE, 10, 1, 1..7),
     DeviceSpec(64, FALSE, 10, 1, 0..31),
     DeviceSpec(128, FALSE, 10, 1, 0..31)}

\* the call of a function of the module with argument arg
ModCall(op, arg) == [op |-> op, st |-> "call", arg |-> arg]

\* the call returns val
ModReturn(val) == [op |-> mod.op, st |-> "done", arg |-> mod.arg, val |-> val]

\* the call raises err
ModRaise(err) == [op |-> mod.op, st |-> "raised", arg |-> mod.arg, err |-> err]

\* a lookup that answers an unknown port count with the smallest device
spec_from_number_of_ports_lenient(num_ports) ==
    LET found == {s \in DeviceType : s.ports = num_ports}
    IN  IF found = {}
        THEN ModReturn(CHOOSE s \in DeviceType : s.ports = 8)
        ELSE ModReturn(CHOOSE s \in found : TRUE)

\* spec_from_number_of_ports(num_ports): the dict {ports: spec} indexed with
\* num_ports, which raises KeyError for a key it does not hold
spec_from_number_of_ports(num_ports) ==
    LET found == {s \in DeviceType : s.ports = num_ports}
    IN  IF found = {}
        THEN ModRaise("KeyError")
        ELSE ModReturn(CHOOSE s \in found : TRUE)

\* the largest argument of the lookups considered
MaxPortsArg == 130

\* the session is not touched by the functions of the module
SessionIdle == Constructed(8, <<LF>>, {1}, {0, 5})

InitLookup == SessionIdle

\* the application looks up the port count n
Call_lookup ==
    \E n \in 0..MaxPortsArg :
        /\ mod.st = "idle"
        /\ mod' = ModCall("spec_from_number_of_ports", n)
        /\ UNCHANGED <<devVars, sessVars, regVars, buf, thrVars, pollVars,
                       histVars, devices>>

Lookup ==
    /\ mod.op = "spec_from_number_of_ports" /\ mod.st = "call"
    /\ mod' = spec_from_number_of_ports(mod.arg)
    /\ UNCHANGED <<devVars, sessVars, regVars, buf, thrVars, pollVars,
                   histVars, devices>>

NextLookup == Call_lookup \/ Lookup

SpecLookup == InitLookup /\ [][NextLookup]_vars

\* C18: the lookup by port count returns, for n among 8, 16, 32, 64 and
\* 128, the DeviceSpec whose ports field is n, and fails for every other n
C18_LookupByPorts ==
    (mod.op = "spec_from_number_of_ports" /\ mod.st # "call") =>
        IF mod.arg \in {8, 16, 32, 64, 128}
        THEN /\ mod.st = "done"
             /\ mod.val \in DeviceType
             /\ mod.val.ports = mod.arg
        ELSE mod.st = "raised" /\ mod.err = "KeyError"

\* the lookup of 64 has returned the device with 64 ports
C18_Witness ==
    /\ mod.op = "spec_from_number_of_ports" /\ mod.arg = 64
    /\ mod.st = "done" /\ mod.val.ports = 64 /\ mod.val.adc_ports = 0..31

----------------------------------------------------------------------------
(* The cleanup() of the module over the dict of the discovered devices     *)

\* the largest number of devices in the dict
MaxDevices == 3

\* the condition of a registered session: in working order, unplugged,
\* closed before, or with a poller that has ended
DeviceConds == {"ok", "unplugged", "closed", "hung"}

\* the dicts from device ids to sessions
Registries ==
    UNION {[S -> DeviceConds] : S \in SUBSET (1..MaxDevices)}

\* list(devices.keys()), in the order of the ids
RECURSIVE KeysOf(_)
KeysOf(S) ==
    IF S = {} THEN <<>>
    ELSE LET k == CHOOSE x \in S : \A y \in S : x <= y
         IN  <<k>> \o KeysOf(S \ {k})

\* devices[dev_id].cleanup() of a session in condition c: _write raises
\* NumatoGpioError on an unplugged or closed port, and a session without
\* its poller never gets an echo
DeviceCleanup(c) ==
    CASE c = "ok" -> "returned"
      [] c \in {"unplugged", "closed"} -> "NumatoGpioError"
      [] c = "hung" -> "blocked"

\* del devices[dev_id]
Deleted(k) == [x \in (DOMAIN devices) \ {k} |-> devices[x]]

\* a loop body that deletes only the devices whose cleanup returned
RegistryAfterNoFinally(k, outcome) ==
    IF outcome = "returned" THEN Deleted(k) ELSE devices

\* the try statement of the loop: except NumatoGpioError passes, finally
\* deletes the device
RegistryAfter(k, outcome) == Deleted(k)

InitRegistry == SessionIdle

\* discover() has registered some devices
Registry_discovered ==
    \E r \in Registries \ {NoDevices} :
        /\ mod.st = "idle" /\ devices = NoDevices
        /\ devices' = r
        /\ UNCHANGED <<devVars, sessVars, regVars, buf, thrVars, pollVars,
                       histVars, mod>>

\* cleanup() of the module is called: the keys are listed
Call_module_cleanup ==
    /\ mod.st = "idle"
    /\ mod' = [op |-> "cleanup", st |-> "call",
               listed |-> KeysOf(DOMAIN devices),
               keys |-> KeysOf(DOMAIN devices), log |-> <<>>]
    /\ UNCHANGED <<devVars, sessVars, regVars, buf, thrVars, pollVars,
                   histVars, devices>>

\* one iteration of the loop of cleanup()
CleanupDevice ==
    /\ mod.op = "cleanup" /\ mod.st = "call" /\ mod.keys # <<>>
    /\ LET dev_id == Head(mod.keys)
           outcome == DeviceCleanup(devices[dev_id])
       IN  /\ outcome # "blocked"
           /\ devices' = RegistryAfter(dev_id, outcome)
           /\ mod' = [mod EXCEPT !.keys = Tail(@),
                                 !.log = Append(@, <<dev_id, outcome>>)]
    /\ UNCHANGED <<devVars, sessVars, regVars, buf, thrVars, pollVars,
                   histVars>>

\* the loop of cleanup() ends
CleanupReturn ==
    /\ mod.op = "cleanup" /\ mod.st = "call" /\ mod.keys = <<>>
    /\ mod' = [mod EXCEPT !.st = "done"]
    /\ UNCHANGED <<devVars, sessVars, regVars, buf, thrVars, pollVars,
                   histVars, devices>>

NextRegistry ==
    \/ Registry_discovered
    \/ Call_module_cleanup
    \/ CleanupDevice
    \/ CleanupReturn

SpecRegistry == InitRegistry /\ [][NextRegistry]_vars

\* C19: when cleanup() of the module has finished the dict of devices is
\* empty, whatever each device's cleanup did: a device whose cleanup
\* failed is removed and the devices after it are cleaned up as well
C19_RegistryEmptied ==
    (mod.op = "cleanup" /\ mod.st = "done") =>
        /\ devices = NoDevices
        /\ Len(mod.log) = Len(mod.listed)
        /\ \A i \in 1..Len(mod.log) : mod.log[i][1] = mod.listed[i]

\* cleanup() has finished over three devices of which the first failed and
\* a later one was cleaned up
C19_Witness ==
    /\ mod.op = "cleanup" /\ mod.st = "done" /\ devices = NoDevices
    /\ Len(mod.log) = 3
    /\ mod.log[1][2] = "NumatoGpioError"
    /\ mod.log[3][2] = "returned"

----------------------------------------------------------------------------
(* The three commands of the iodir setter, with a second thread that sets  *)
(* the iomask and a device that can be unplugged                           *)

\* the directions thread t1 sets
IodirArgs == {{}, {0, 2}, {1, 7}, 0..7}
\* the masks thread t2 sets
IomaskArgs == {{}, {0, 2}}

InitIodir ==
    \E p \in {8, 16}, e \in {<<CR, LF>>, <<LF>>} :
        Constructed(p, e, {1}, {0, 5})

\* thread t has not called anything yet
NotCalled(t) == \A i \in 1..Len(trace) : trace[i].t # t

Iodir_set == \E d \in IodirArgs : NotCalled("t1") /\ iodir_set("t1", d)
Iodir_iomask == \E m \in IomaskArgs : NotCalled("t2") /\ iomask_set("t2", m)

NextIodir ==
    \/ Iodir_set
    \/ Iodir_iomask
    \/ Unplug
    \/ \E t \in Callers : Send(t)
    \/ \E t \in Callers : ReadString(t)
    \/ \E t \in Callers : Assign(t)
    \/ \E t \in Callers : Release(t)
    \/ \E t \in Callers : Return(t)
    \/ PollTop
    \/ PollSecond
    \/ PollThird

SpecIodir == InitIodir /\ [][NextIodir]_vars

\* thread t is inside the `with` block of the iodir setter
IodirRunning(t) ==
    res[t].op = "iodir" /\ res[t].st = "run" /\ rw_lock = t

\* the commands thread t has still to send
SendsLeft(t) ==
    Cardinality({i \in 1..Len(prog[t]) : prog[t][i].k = "send"})

\* in this step the device receives a command of thread t
Sent(t) == At(t, "send") /\ nsent' > nsent

\* in this step thread t assigns the cached iodir
SetsIodir(t) ==
    /\ At(t, "set") /\ Head(prog[t]).e = "iodir"
    /\ prog'[t] = Tail(prog[t])

\* everything the device has answered so far was read by the callers
Acknowledged == ntaken = nsent /\ buf = <<>> /\ rx = <<>>

\* the command of the iodir setter of thread t that has k commands to go
IodirCommand(t, k) ==
    CASE k = 3 -> Q_iomask \o FormatHex(MASK_ALL_PORTS, HEX_DIGITS)
      [] k = 2 -> Q_iodir \o FormatHex(res[t].arg, HEX_DIGITS)
      [] k = 1 -> Q_iomask \o
                  FormatHex(Xor(res[t].arg, MASK_ALL_PORTS), HEX_DIGITS)

\* C20: setting iodir to d sends exactly three commands in this order, each
\* acknowledged before the next is sent and with no command of another
\* thread in between: gpio iomask all ones, gpio iodir d, gpio iomask
\* complement of d; the cached iodir becomes d only after all three succeeded
C20_IodirThreeCommands ==
    [][ /\ \A t \in Callers :
               IodirRunning(t) =>
                   /\ \A u \in Callers \ {t} : ~Sent(u)
                   /\ Sent(t) =>
                          /\ SendsLeft(t) \in 1..3
                          /\ Head(prog[t]).s = IodirCommand(t, SendsLeft(t))
                          /\ Acknowledged
                          /\ SendsLeft(t) = 2 => dev.iomask = AllPorts(ports)
                          /\ SendsLeft(t) = 1 => dev.iodir = res[t].arg
                   /\ SetsIodir(t) =>
                          /\ iodir' = res[t].arg
                          /\ SendsLeft(t) = 0
                          /\ Acknowledged
                          /\ dev.iodir = res[t].arg
                          /\ dev.iomask = Xor(res[t].arg, AllPorts(ports))
        /\ iodir' # iodir =>
               \E t \in Callers : IodirRunning(t) /\ SetsIodir(t)
      ]_vars

\* both threads have returned, t2 from setting the iomask first and t1 from
\* setting iodir to {0, 2} on the device with 16 ports
C20_Witness ==
    /\ Len(trace) = 2 /\ trace[1].t = "t2"
    /\ res["t1"].op = "iodir" /\ res["t1"].st = "done"
    /\ res["t2"].st = "done"
    /\ ports = 16 /\ iodir = {0, 2} /\ dev.iodir = {0, 2}
    /\ dev.iomask = AllPorts(16) \ {0, 2}

----------------------------------------------------------------------------
(* Sequences of setup, iodir, readall, write and writeall of one thread    *)

\* operations the caller of SpecMask starts in one behaviour
MaxMaskOps == 3

InitMask == Constructed(8, <<CR, LF>>, {1, 3}, {0, 5})

MoreMask == Len(trace) < MaxMaskOps

Mask_setup ==
    \E port \in {0, 3}, d \in {OUT, IN_} : MoreMask /\ setup("t1", port, d)
Mask_iodir == \E d \in {{}, {0, 1}} : MoreMask /\ iodir_set("t1", d)
Mask_readall == MoreMask /\ readall("t1")
Mask_write == \E port \in {0, 3} : MoreMask /\ write("t1", port, 1)
Mask_writeall ==
    \E bits \in {{0, 3}, AllPorts(8)} : MoreMask /\ writeall("t1", bits)

NextMask ==
    \/ Mask_setup
    \/ Mask_iodir
    \/ Mask_readall
    \/ Mask_write
    \/ Mask_writeall
    \/ ExchangeStep("t1")
    \/ PollTop
    \/ PollSecond
    \/ PollThird

SpecMask == InitMask /\ [][NextMask]_vars

\* in this step thread t sends a gpio writeall command
SendsWriteall(t) ==
    Sent(t) /\ StartsWith(Head(prog[t]).s, Q_writeall)

\* the value the gpio writeall command of thread t carries
WriteallValue(t) == IntVal(Drop(Head(prog[t]).s, Len(Q_writeall)))

\* in this step thread t calls writeall
CallsWriteall(t) ==
    /\ Len(trace') = Len(trace) + 1
    /\ trace'[Len(trace')].t = t /\ trace'[Len(trace')].op = "writeall"

\* C21: writeall(bits) caches exactly bits & ~iodir as the state and sends
\* that value in gpio writeall; after any sequence of setup, iodir, readall,
\* write and writeall no gpio writeall command carries a 1 bit for a port
\* that is configured as input, and writeall records no state for an input
\* port
C21_WriteallMasksInputs ==
    [][\A t \in Callers :
           /\ CallsWriteall(t) =>
                  /\ state' = trace'[Len(trace')].arg \ iodir
                  /\ state' \cap iodir = {}
           /\ SendsWriteall(t) =>
                  /\ WriteallValue(t) \cap iodir = {}
                  /\ WriteallValue(t) \cap dev.iodir = {}
                  /\ WriteallValue(t) = state
                  /\ res[t].op = "writeall" =>
                         WriteallValue(t) = res[t].arg \ iodir
      ]_vars

\* writeall(ff) was called with port 1 the only input, and it has stored and
\* sent fd
C21_Witness ==
    /\ Len(trace) = 3
    /\ trace[1].op = "iodir" /\ trace[1].arg = {0, 1}
    /\ trace[2].op = "setup" /\ trace[2].port = 0 /\ trace[2].n = OUT
    /\ trace[3].op = "writeall" /\ trace[3].arg = AllPorts(8)
    /\ res["t1"].st = "done"
    /\ iodir = {1} /\ state = AllPorts(8) \ {1}
    /\ dev.levels \cap (AllPorts(8) \ {1}) = AllPorts(8) \ {1}

\* thread t is inside the `with` block of setup
SetupRunning(t) ==
    res[t].op = "setup" /\ res[t].st = "run" /\ rw_lock = t

\* bit port of a direction vector as setup(port, direction) wants it
WantedBit(t) == IF res[t].n # 0 THEN {res[t].port} ELSE {}

\* the vectors a and b differ at most in bit port
SameButBit(a, b, port) == a \ {port} = b \ {port}

\* C22: setup(port, direction) with a port in the range leaves a cached and
\* a device iodir whose bit port is direction (1 input, 0 output) and whose
\* other bits are what they were before the call
C22_SetupChangesOneBit ==
    [][\A t \in Callers :
           SetupRunning(t) =>
               /\ SetsIodir(t) =>
                      /\ iodir' \cap {res[t].port} = WantedBit(t)
                      /\ SameButBit(iodir', iodir, res[t].port)
                      /\ dev.iodir = iodir'
               /\ dev'.iodir # dev.iodir =>
                      /\ dev'.iodir \cap {res[t].port} = WantedBit(t)
                      /\ SameButBit(dev'.iodir, dev.iodir, res[t].port)
               /\ iodir' # iodir => SetsIodir(t)
      ]_vars

\* setup(3, IN) has returned after iodir = 3: ports 0, 1 and 3 are inputs
C22_Witness ==
    /\ Len(trace) = 2
    /\ trace[1].op = "iodir" /\ trace[1].arg = {0, 1}
    /\ trace[2].op = "setup" /\ trace[2].port = 3 /\ trace[2].n = IN_
    /\ res["t1"].st = "done"
    /\ iodir = {0, 1, 3} /\ dev.iodir = {0, 1, 3}

----------------------------------------------------------------------------
(* __init__ on devices that echo a query as it was typed or in capitals    *)

InitEcho ==
    \E p \in {8, 16}, e \in {<<CR, LF>>, <<LF>>}, caps \in BOOLEAN :
        CtorStart([DeviceBefore(p, e, FALSE) EXCEPT !.caps = caps], <<>>)

SpecEcho == InitEcho /\ [][NextCtor]_vars

\* the echoes of this device equal the queries when case is ignored
EchoesMatchIgnoringCase ==
    \A text \in {Q_readall, Q_id_get, Q_ver} :
        Lower(DevEcho(dev, text)) = Lower(text)

\* C23: _query(text) writes text and one carriage return, consumes
\* len(text) + len(eol) bytes of the hand-off buffer and accepts them if and
\* only if they equal text + eol when case is ignored; on a mismatch it
\* fails with an echo error
C23_EchoIgnoresCase ==
    EchoesMatchIgnoringCase =>
        \A t \in Callers : ~(res[t].st = "raised" /\ res[t].err = "echo")

\* the echo is compared as it is: __init__ returns on the device that echoes
\* the query as typed, and fails with the echo error of gpio readall, before
\* it knows the port count, on the device that echoes in capitals
C23_EchoComparedExactly ==
    /\ Returned => ~dev.caps
    /\ ProbeFailed =>
           /\ dev.caps /\ res["t1"].err = "echo" /\ ports = 0
           /\ eol = dev.eol

----------------------------------------------------------------------------
(* __init__ on devices whose version text is too short, too long or not    *)
(* hexadecimal: _read_int("ver", 32)                                       *)

\* version texts of seven and of nine hexadecimal characters
ShortVersion == <<"0","0","0","0","0","0","8">>
LongVersion == <<"0","0","0","0","0","0","0","8","1">>

InitWidth ==
    \E p \in {8, 16}, e \in {<<CR, LF>>, <<LF>>},
       v \in {DevVersion, OddVersion, ShortVersion, LongVersion} :
        CtorStart([DeviceBefore(p, e, FALSE) EXCEPT !.ver = v], <<>>)

SpecWidth == InitWidth /\ [][NextCtor]_vars

\* the text is exactly bits / 4 hexadecimal characters
HexOfWidth(s, bits) ==
    Len(s) = bits \div 4 /\ \A i \in 1..Len(s) : HexVal(s[i]) >= 0

\* thread t waits in _read for bytes that will never come: the device has
\* sent everything and the poller has passed it on
WaitsForEver(t) ==
    /\ IsTake(t) /\ Len(buf) < Requested(t)
    /\ rx = <<>> /\ q = <<>> /\ is_open /\ ~fault

\* C24: _read_int(text, bits) returns the base 16 value of the response only
\* when the response before the end of line and the prompt is exactly
\* bits / 4 hexadecimal characters; for a response that is shorter, longer or
\* not hexadecimal it ends with the unexpected-result error that names the
\* bit width: it neither returns a value nor waits for more bytes
C24_ReadIntChecksWidth ==
    IF HexOfWidth(dev.ver, 32)
    THEN ProbeFailed => FALSE
    ELSE /\ ~Returned
         /\ ~WaitsForEver("t1")
         /\ ProbeFailed => res["t1"].err = "result"

\* what _read_int does with each version text
C24_ReadIntOutcomes ==
    /\ Returned => dev.ver = DevVersion
    /\ ProbeFailed =>
           \/ dev.ver = OddVersion /\ res["t1"].err = "result"
           \/ dev.ver = LongVersion /\ res["t1"].err = "after"
    /\ WaitsForEver("t1") => dev.ver = ShortVersion

----------------------------------------------------------------------------
(* __init__, then notify = True, then another call of _detect_eol          *)

InitDetect ==
    \E e \in EolSeqs, used \in BOOLEAN :
        CtorStart(DeviceBefore(16, e, used), <<>>)

Detect_notify ==
    /\ Returned /\ Len(trace) = 1
    /\ notify_set("t1", TRUE)

Detect_again ==
    /\ Len(trace) = 2 /\ res["t1"].st = "done" /\ notify
    /\ _detect_eol("t1")

NextDetect ==
    \/ NextCtor
    \/ Release("t1")
    \/ Detect_notify
    \/ Detect_again

SpecDetect == InitDetect /\ [][NextDetect]_vars

\* in this step _detect_eol adopts an end of line
DetectStep(t) == At(t, "detect") /\ prog'[t] = Tail(prog[t])

\* in this step thread t calls _detect_eol
CallsDetect(t) ==
    /\ Len(trace') = Len(trace) + 1
    /\ trace'[Len(trace')].t = t /\ trace'[Len(trace')].op = "_detect_eol"

\* C25: the detection of the end of line runs exactly once per session and
\* is complete before any gpio notify on is sent; called while the notify
\* flag is true it fails without writing to the port and without changing
\* the end of line adopted
C25_DetectOnceBeforeNotify ==
    /\ [](Returned => (Detected /\ ports # 0))
    /\ [][\A t \in Callers :
              /\ DetectStep(t) => (res[t].op = "__init__" /\ ports = 0)
              /\ (Sent(t) /\ Head(prog[t]).s = Q_notify_on) =>
                     (Detected /\ ports # 0 /\ eol = dev.eol)
              /\ (CallsDetect(t) /\ notify) =>
                     /\ res'[t].st = "raised"
                     /\ UNCHANGED <<rx, dev, nsent, eol, buf, prog>>
        ]_vars

\* _detect_eol was called after notify = True on the device whose end of
\* line is LF CR, and has raised
C25_Witness ==
    /\ Len(trace) = 3 /\ trace[2].op = "notify" /\ trace[3].op = "_detect_eol"
    /\ res["t1"].op = "_detect_eol" /\ res["t1"].st = "raised"
    /\ notify /\ dev.notify
    /\ eol = <<LF, CR>> /\ dev.eol = <<LF, CR>>

----------------------------------------------------------------------------
(* Notification frames while a thread adds and removes event detections    *)

\* registrations thread t1 changes in one behaviour
MaxEdgeOps == 2

InitEdges ==
    Ready([DeviceAfterInit(16, <<CR, LF>>, {1}, {0, 5}) EXCEPT !.notify = TRUE],
          TRUE, CallbacksOf(Mixed), Mixed)

MoreEdges == Len(trace) < MaxEdgeOps

\* the frames of SpecEdges, as pairs of current and previous value: all
\* ports rise; port 0 rises and port 1 falls while port 2 stays high
EdgeFrames == {<<AllPorts(16), {}>>, <<{0, 2}, {1, 2}>>}

Edges_remove ==
    \E port \in {0, 1} : MoreEdges /\ remove_event_detect("t1", port)
Edges_add ==
    \E port \in {1, 3}, e \in {RISING, BOTH} :
        MoreEdges /\ add_event_detect("t1", port, "mock", e)

NextEdges ==
    \/ Edges_remove
    \/ Edges_add
    \/ AssignEdge("t1")
    \/ Return("t1")
    \/ DeviceNotify(EdgeFrames)
    \/ PollTop
    \/ PollSecond
    \/ PollThird
    \/ PollFrame
    \/ PollSelect
    \/ PollCall

SpecEdges == InitEdges /\ [][NextEdges]_vars

\* the frame the poller is dispatching
Dispatched == frames[pf]

\* in this step the poller finds port x changed and its filter matching
Selects(x) == ppc = "select" /\ ppc' = "call" /\ dport' = x

\* in this step the callback of port x is invoked
Invokes(x) ==
    /\ Len(calls') = Len(calls) + 1
    /\ calls'[Len(calls')].port = x

\* C26: for a decoded frame (current value, previous value, discarded
\* iodir) a callback is invoked for a port only if the bit of the port in
\* current XOR previous is set, a callback is registered for the port and
\* its filter matches the new level: RISING only with the bit of the current
\* value 1, FALLING only with 0, BOTH with either; a port without a
\* callback, or whose callback was removed, has no callback invoked
C26_CallbackOnlyOnSelectedEdge ==
    [][\A x \in AllPorts(ports) :
           /\ Selects(x) =>
                  /\ cur = Dispatched.cur /\ prev = Dispatched.prev
                  /\ x \in Xor(Dispatched.cur, Dispatched.prev)
                  /\ edge[x] \in {RISING, FALLING, BOTH}
                  /\ edge[x] = RISING => x \in Dispatched.cur
                  /\ edge[x] = FALLING => x \notin Dispatched.cur
           /\ Invokes(x) =>
                  /\ ppc = "call" /\ dport = x
                  /\ callback[x] \notin {"0", "None"}
                  /\ x \in Xor(Dispatched.cur, Dispatched.prev)
                  /\ calls'[Len(calls')].f = pf
                  /\ calls'[Len(calls')].level = (x \in Dispatched.cur)
      ]_vars

\* the detection of port 0 was removed and one for rising edges added at
\* port 3; the frame from all zeros to all ones was dispatched: the callback
\* of port 3 was invoked and none of port 0
C26_Witness ==
    /\ Len(trace) = 2 /\ res["t1"].st = "done"
    /\ trace[1].op = "remove_event_detect" /\ trace[1].port = 0
    /\ trace[2].op = "add_event_detect" /\ trace[2].port = 3
    /\ Len(frames) = 1 /\ frames[1].cur = AllPorts(16) /\ Handled(1)
    /\ frames[1].at = 0 /\ is_open
    /\ CallsFor(1, 3) # {} /\ CallsFor(1, 0) = {}
    /\ callback[0] = "None" /\ edge[0] = NoEdge

\* C35: add_event_detect and remove_event_detect of a caller thread, at
\* any moment of the dispatch of a frame by the poller, never make the
\* poller invoke an entry that is cleared or not callable and never end the
\* poller or close the port: the poller keeps running.
C35_RegistrationRaceHarmless ==
    /\ is_open
    /\ ~PollerEnded

\* what does hold: the poller ends in SpecEdges only when it invokes an
\* entry that remove_event_detect has cleared while the edge filter of the
\* port was still set, and it closes the port when it does
C35_PollerEndsOnClearedEntry ==
    [][(~PollerEnded /\ PollerEnded') =>
          /\ ppc = "call" /\ ppc' = "done" /\ ~is_open'
          /\ callback[dport] = "None"
          /\ \E i \in 1..Len(trace) :
                /\ trace[i].op = "remove_event_detect"
                /\ trace[i].port = dport
      ]_vars

----------------------------------------------------------------------------
(* How the poller thread ends: the port is closed by cleanup, a read       *)
(* raises, or a notification frame is cut short                            *)

InitStop ==
    Ready([DeviceAfterInit(16, <<CR, LF>>, {1}, {0, 5}) EXCEPT !.notify = TRUE],
          TRUE, CallbacksOf(AllBoth), AllBoth)

\* the device sends the first keep characters of a notification frame and
\* then nothing more: the reads of the rest of the frame time out
DeviceNotifyCut(pairs) ==
    /\ dev.notify
    /\ Len(frames) < MaxFrames
    /\ ~fault
    /\ BetweenFrames
    /\ \E pair \in pairs, keep \in {Len(dev.eol) + 1, Len(dev.eol) + 4} :
          /\ rx' = FrameBytes(Take(DevFrame(dev, pair[1], pair[2]), keep),
                              Len(frames) + 1) \o rx
          /\ frames' = Append(frames, [cur |-> pair[1], prev |-> pair[2],
                                       at |-> StreamPosition])
    /\ UNCHANGED <<is_open, fault, modVars, dev, nsent, sessVars, regVars, buf,
                   thrVars, pollVars, histVars>>

Stop_cleanup == trace = <<>> /\ cleanup("t1")

\* the frame of SpecStop: port 0 rises and port 1 falls
StopFrames == {<<{0, 2}, {1, 2}>>}

\* the steps of thread t1 inside cleanup
StopStep ==
    \/ Send("t1")
    \/ ReadString("t1")
    \/ Assign("t1")
    \/ Close("t1")
    \/ Release("t1")
    \/ Return("t1")

NextStop ==
    \/ Stop_cleanup
    \/ StopStep
    \/ PollStep
    \/ DeviceNotify(StopFrames)
    \/ DeviceNotifyCut(StopFrames)
    \/ Unplug

\* both threads are scheduled as long as they can take a step
FairnessStop == WF_vars(StopStep) /\ WF_vars(PollStep)

SpecStop == InitStop /\ [][NextStop]_vars /\ FairnessStop

\* C27: once the port is closed or a read of the port raises, the loop of
\* the poller ends and its thread terminates; and whenever the poller thread
\* has stopped, for whatever reason, a notification frame cut short by an
\* empty or short read included, the port is closed
C27_PollerStopsWithPortClosed ==
    /\ (~is_open \/ fault) ~> PollerEnded
    /\ [](PollerEnded => ~is_open)

\* the poller ends with the port closed when the port was closed or a read
\* raised, and with the port open only by the ValueError of a frame cut short
C27_PollerStopsOnClose ==
    /\ (~is_open \/ fault) ~> PollerEnded
    /\ [](ppc = "done" => ~is_open)
    /\ []((ppc = "dead" /\ is_open) => (frames # <<>> /\ calls = <<>>))

\* thread t is inside cleanup
CleanupRunning(t) == res[t].op = "cleanup" /\ res[t].st = "run"

\* the writes and the close that cleanup of thread t has not yet come to
\* when it is at the first step of its program
NotAttempted(t) ==
    {i \in 2..Len(prog[t]) : prog[t][i].k \in {"send", "close"}}

\* C28: cleanup is best effort: if one of its steps (iomask reset, iodir
\* reset to all inputs, notify off) fails, the remaining steps are still
\* attempted and the port is still closed
C28_CleanupBestEffort ==
    [][\A t \in Callers :
           (CleanupRunning(t) /\ res'[t].st = "raised") =>
               /\ NotAttempted(t) = {}
               /\ ~is_open'
      ]_vars

\* cleanup ends with the error of its first failing step, and the port is
\* closed then only because _write closes it when the write fails
C28_CleanupStopsAtFirstFailure ==
    [][\A t \in Callers :
           (CleanupRunning(t) /\ res'[t].st = "raised") =>
               /\ prog'[t] = <<>>
               /\ res'[t].err = "serial" => (At(t, "send") /\ ~is_open')
               /\ res'[t].err # "serial" => is_open' = is_open
      ]_vars


----------------------------------------------------------------------------
(* Readers of the port during construction (specification SpecCtor)        *)

\* thread t takes the step at the head of its program in this step
Steps(t) == prog'[t] # prog[t]

\* a step of kind k is still ahead of thread t
StillAhead(t, k) == \E i \in 1..Len(prog[t]) : prog[t][i].k = k

\* the poller thread has been started
PollerStarted == ppc # "off"

\* this step calls _ser.read from a thread that is not the poller
ReadsPortDirectly(t) == At(t, "drain") /\ Steps(t)

\* this step takes bytes out of the serial port
TakesFromPort == Len(rx') < Len(rx)

\* C29: once the poller is started no other thread reads the port: bytes
\* leave the port only in a step of the poller, or in the drain, which runs
\* before the poller is started; in __init__ the write of gpio notify off
\* that waits for no answer and the drain both happen while the poller is
\* not started, the poller is started after them, and every other command
\* of __init__ is written while the poller is started.
C29_OnlyPollerReadsPort ==
    [][/\ ReadsPortDirectly("t1") => ~PollerStarted
       /\ TakesFromPort =>
              IF PollerStarted THEN prog' = prog ELSE ReadsPortDirectly("t1")
       /\ (At("t1", "send") /\ Steps("t1")) =>
              IF StillAhead("t1", "drain")
              THEN /\ ~PollerStarted
                   /\ Head(prog["t1"]).s = Q_notify_off
                   /\ At("t1", "drain")'
              ELSE PollerStarted
       /\ (~PollerStarted /\ PollerStarted') =>
              /\ ~StillAhead("t1", "drain")
              /\ StillAhead("t1", "send") /\ StillAhead("t1", "detect")
      ]_vars

\* __init__ has returned after stale bytes were drained and every answer of
\* the device went through the poller into the hand-off buffer
C29_Witness ==
    /\ Returned
    /\ PollerStarted
    /\ rx = <<>> /\ buf = <<>>
    /\ nappended = ntaken /\ nappended > 0
    /\ dev.ports = 32


----------------------------------------------------------------------------
(* The poller and the lock of the session (specification SpecNotify)       *)

\* the places of the poller where it reads the port, decodes a frame or
\* appends to the hand-off buffer
BytePath ==
    {"top", "second", "third", "sep1", "cur", "sep2", "prev", "sep3", "iodir"}

\* a step of the poller on its byte path
BytePathStep == PollTop \/ PollSecond \/ PollThird \/ PollFrame

\* C30: the poller never holds the lock of the session while it reads the
\* port, decodes a frame or appends to the hand-off buffer, and it never
\* waits for it: whoever holds the lock, with a byte in the port the next
\* step of the poller on that path can be taken, so a caller that keeps the
\* lock while it waits for its answer never stops the bytes from coming.
C30_PollerNeverWaitsForLock ==
    (ppc \in BytePath /\ PollerRuns) =>
        /\ rw_lock # Poller
        /\ (rx # <<>> /\ rw_lock # NoThread) => ENABLED BytePathStep

\* readall holds the lock and waits for bytes, a frame that came after its
\* command was decoded, and bytes of the answer are in the hand-off buffer
C30_Witness ==
    /\ rw_lock = "t1" /\ Blocked("t1")
    /\ pf > 0 /\ frames[pf].at > 0
    /\ ppc = "top"
    /\ nappended > ntaken /\ ntaken > 0


----------------------------------------------------------------------------
(* The device id: two application threads read and set it, and the link    *)
(* may break (specification SpecId)                                        *)

\* operations the callers of SpecId start in one behaviour
MaxIdOps == 3

\* the ids the callers program: 0x00000002 and 0x80000001
IdArgs == {{1}, {0, 31}}

InitId == Constructed(16, <<CR, LF>>, {1}, {0, 5})

MoreId(t) ==
    /\ Len(trace) < MaxIdOps
    /\ t = "t1" \/ res["t1"].st # "idle"

Id_get == \E t \in Callers : MoreId(t) /\ id_get(t)
Id_set == \E t \in Callers, v \in IdArgs : MoreId(t) /\ id_set(t, v)

NextId ==
    \/ Id_get
    \/ Id_set
    \/ \E t \in Callers :
          Send(t) \/ ReadString(t) \/ Assign(t) \/ Release(t) \/ Return(t)
    \/ PollTop
    \/ PollSecond
    \/ PollThird
    \/ Unplug

SpecId == InitId /\ [][NextId]_vars

\* in this step thread t calls the id getter
GetsId(t) == res'[t] # res[t] /\ res'[t].op = "id_get" /\ res[t].st # "run"

\* thread t is inside the id setter
SettingId(t) == res[t].op = "id" /\ res[t].st = "run"

\* the text s is n hexadecimal digits in lower case
LowerHex(s, n) ==
    /\ Len(s) = n
    /\ \A i \in 1..n : \E k \in 1..16 : HexLower[k] = s[i]

\* C31: with the id cached, the id getter returns the cached value and
\* writes nothing to the port; the id setter writes "id set " and the value
\* as eight hexadecimal digits; the cached id changes only in the setter,
\* to the value given, when its whole exchange has succeeded; a setter
\* that fails leaves the cached id as it was.
C31_IdCachedAndSetOnSuccess ==
    [][\A t \in Callers :
          /\ GetsId(t) =>
                /\ res'[t].st = "done" /\ res'[t].val = id
                /\ UNCHANGED <<rx, dev, nsent, rw_lock, prog, id>>
          /\ (SettingId(t) /\ At(t, "send") /\ Steps(t)) =>
                LET text == Head(prog[t]).s
                IN  /\ StartsWith(text, Q_id_set)
                    /\ LowerHex(Drop(text, Len(Q_id_set)), 8)
                    /\ IntVal(Drop(text, Len(Q_id_set))) = res[t].arg
          /\ (SettingId(t) /\ res'[t].st = "raised") => id' = id
          /\ id' # id =>
                \E s \in Callers :
                    /\ SettingId(s) /\ At(s, "set") /\ Steps(s)
                    /\ id' = res[s].arg
                    /\ ~StillAhead(s, "send")
                    /\ ~StillAhead(s, "echo")
                    /\ ~StillAhead(s, "expect")
      ]_vars

\* one thread has programmed the id 0x80000001 and the other has read it
\* back from the cache, with one command written to the device in all
C31_Witness ==
    /\ res["t1"].op = "id" /\ res["t1"].st = "done"
    /\ res["t1"].arg = {0, 31}
    /\ id = {0, 31} /\ dev.id = {0, 31}
    /\ res["t2"].op = "id_get" /\ res["t2"].st = "done"
    /\ res["t2"].val = {0, 31}
    /\ nsent = Len(DevRespond(dev, Q_id_set \o FormatHex({0, 31}, 8) \o <<CR>>))


----------------------------------------------------------------------------
(* Analog reads on a 16 and on a 64 port device (specification SpecAdc)    *)

\* the analog ports the caller reads
AdcArgs == {5, 12}

InitAdc ==
    \E p \in {16, 64}, e \in {<<CR, LF>>, <<LF>>} :
        Constructed(p, e, {1}, {0, 5})

Adc_read == \E a \in AdcArgs : trace = <<>> /\ adc_read("t1", a)

NextAdc ==
    \/ Adc_read
    \/ Send("t1")
    \/ ReadString("t1")
    \/ ReadUntil("t1")
    \/ AdcParse("t1")
    \/ Release("t1")
    \/ Return("t1")
    \/ PollTop
    \/ PollSecond
    \/ PollThird

SpecAdc == InitAdc /\ [][NextAdc]_vars

\* in this step thread t writes the command of adc_read
SendsAdcRead(t) ==
    res[t].op = "adc_read" /\ At(t, "send") /\ Steps(t)

\* the port number in the command thread t is about to write
AdcPortText(t) == Drop(Head(prog[t]).s, Len(Q_adc_read))

\* C32: adc_read writes "adc read " and the port number in decimal: as
\* exactly two digits, with a leading zero where needed, on a device with
\* more than 32 ports, and as one digit on the other devices.
C32_AdcPortDigits ==
    [][\A t \in Callers :
          SendsAdcRead(t) =>
              /\ StartsWith(Head(prog[t]).s, Q_adc_read)
              /\ DecOk(AdcPortText(t))
              /\ DecVal(AdcPortText(t)) = res[t].port
              /\ Len(AdcPortText(t)) = IF ports > 32 THEN 2 ELSE 1
      ]_vars

\* what adc_read writes: the port number in decimal with no leading zero,
\* whatever the device
C32_AdcPortUnpadded ==
    [][\A t \in Callers :
          SendsAdcRead(t) =>
              /\ StartsWith(Head(prog[t]).s, Q_adc_read)
              /\ DecVal(AdcPortText(t)) = res[t].port
              /\ Len(AdcPortText(t)) = IF res[t].port < 10 THEN 1 ELSE 2
      ]_vars


----------------------------------------------------------------------------
(* Timing: the bytes of the device reach the port one by one, and a read   *)
(* of the port that finds none returns nothing after its timeout.  The     *)
(* device sends a short text with a notification frame at any place of it, *)
(* or with none; the poller is scheduled fairly (specification SpecTiming) *)

\* the frame of the stream: ports 0 and 1 change, port 2 stays high
TimingFrame == [cur |-> {0, 2}, prev |-> {1, 2}]

InitTiming ==
    \E e \in EolSeqs :
        Ready([DeviceAfterInit(16, e, {1}, {0, 5}) EXCEPT !.notify = TRUE],
              TRUE, CallbacksOf(AllBoth), AllBoth)

\* the ordinary texts of the stream: the end of an answer, and a text that
\* stops after an end of line
TimingTexts == {<<"1">> \o dev.eol \o Prompt, <<"1">> \o dev.eol}

\* the device sends the text, with the frame after `at` of its characters
DeviceStream ==
    /\ nsent = 0 /\ dev.wire = <<>>
    /\ \E text \in TimingTexts, framed \in BOOLEAN, at \in 0..4 :
          /\ at <= Len(text)
          /\ framed \/ at = 0
          /\ nsent' = Len(text)
          /\ frames' = IF framed
                       THEN <<[cur |-> TimingFrame.cur,
                               prev |-> TimingFrame.prev, at |-> at]>>
                       ELSE <<>>
          /\ dev' = [dev EXCEPT !.wire =
                        IF framed
                        THEN Ordinary(Take(text, at), 0) \o
                             FrameBytes(DevFrame(dev, TimingFrame.cur,
                                                 TimingFrame.prev), 1) \o
                             Ordinary(Drop(text, at), at)
                        ELSE Ordinary(text, 0)]
    /\ UNCHANGED <<rx, is_open, fault, modVars, sessVars, regVars, buf, thrVars,
                   pollVars, histVars>>

\* the next byte of the device reaches the port
Arrive ==
    /\ dev.wire # <<>>
    /\ rx' = rx \o Take(dev.wire, 1)
    /\ dev' = [dev EXCEPT !.wire = Drop(@, 1)]
    /\ UNCHANGED <<is_open, fault, modVars, nsent, frames, sessVars, regVars, buf,
                   thrVars, pollVars, histVars>>

NextTiming ==
    \/ DeviceStream
    \/ Arrive
    \/ PollTop
    \/ PollSecond
    \/ PollThird
    \/ PollFrame
    \/ PollSelect
    \/ PollCall

FairnessTiming == WF_vars(Arrive) /\ WF_vars(PollStep)

SpecTiming == InitTiming /\ [][NextTiming]_vars /\ FairnessTiming

RECURSIVE Ascending(_)
\* the elements of a set of numbers in ascending order
Ascending(S) ==
    IF S = {} THEN <<>> ELSE <<Min(S)>> \o Ascending(S \ {Min(S)})

\* the callbacks the frames of the stream ask for, in the order of the loop
\* over the ports
ExpectedCalls ==
    IF frames = <<>> THEN <<>>
    ELSE LET due == {x \in AllPorts(ports) :
                        /\ x \in Xor(frames[1].cur, frames[1].prev)
                        /\ FilterMatches(x, frames[1])}
             order == Ascending(due)
         IN  [i \in 1..Len(order) |->
                 [f |-> 1, port |-> order[i],
                  level |-> order[i] \in frames[1].cur]]

\* the device has sent a stream, every byte of it has reached the port and
\* the poller has read them all and is back at its first read
StreamRead ==
    /\ nsent > 0 /\ dev.wire = <<>> /\ rx = <<>>
    /\ ppc \in {"top", "dead"}

\* C33: what the poller makes of a stream does not depend on when its
\* bytes arrive: wherever a read returns nothing, no byte of a frame is
\* appended to the hand-off buffer, the ordinary bytes are appended in the
\* order of the stream, the callbacks are those of the frame, and when the
\* whole stream is read every ordinary byte is in the hand-off buffer or
\* in the look-ahead and every callback of the frame has been made.
C33_DemuxIgnoresTiming ==
    /\ \A i \in 1..Len(buf) : buf[i].f = 0 /\ buf[i].n = i
    /\ Len(calls) <= Len(ExpectedCalls)
    /\ calls = SubSeq(ExpectedCalls, 1, Len(calls))
    /\ StreamRead =>
          /\ Len(buf) + Len(q) = nsent
          /\ \A j \in 1..Len(q) : q[j].f = 0
          /\ calls = ExpectedCalls

\* what does hold: a stream without a frame comes through whole and in
\* order whenever its bytes arrive
C33_OrdinaryStreamIgnoresTiming ==
    frames = <<>> =>
        /\ \A i \in 1..Len(buf) : buf[i].f = 0 /\ buf[i].n = i
        /\ calls = <<>>
        /\ ppc # "dead"
        /\ StreamRead => Len(buf) + Len(q) = nsent


\* ordinary byte k of the stream is in the look-ahead of the poller
InLookAhead(k) == \E j \in 1..Len(q) : q[j].f = 0 /\ q[j].n = k

\* ordinary byte k of the stream is in the hand-off buffer
InHandOff(k) == \E i \in 1..Len(buf) : buf[i].f = 0 /\ buf[i].n = k

\* C36: every ordinary byte the poller has read is appended to the hand-off
\* buffer in the end, also when the device sends nothing after it and every
\* later read returns nothing: an end of line character at the end of the
\* stream does not stay in the look-ahead for ever.
C36_LookAheadDelivered ==
    \A k \in 1..4 : InLookAhead(k) ~> InHandOff(k)

\* C38: the assertions of read_notification never fail, for each of the
\* four end of line sequences and wherever a read returns nothing: at every
\* entry the look-ahead holds at most one character, the end of line is one
\* character or two different ones when the character after it is looked
\* at, and the poller never ends in the part of the loop that asserts.
C38_PollerAssertionsHold ==
    /\ [](ppc = "top" => Len(q) <= 1)
    /\ [](ppc = "third" => (Len(eol) = 1 \/ eol[1] # eol[2]))
    /\ [][(ppc \in {"top", "second", "third"}) => ppc' # "dead"]_vars

\* with the end of line LF CR the poller has looked at a whole end of line
\* when a read returned nothing, has kept its last character alone in the
\* look-ahead and is at the entry again
C38_Witness ==
    /\ eol = <<LF, CR>>
    /\ ppc = "top" /\ Len(q) = 1 /\ q[1].c = CR
    /\ nappended > 0 /\ buf[Len(buf)].c = LF
    /\ dev.wire # <<>>


----------------------------------------------------------------------------
(* The write protection of the inputs: the sequences of SpecMask, with     *)
(* read as well (specification SpecProtect)                                *)

Protect_read == \E port \in {0, 3} : MoreMask /\ read("t1", port)

NextProtect ==
    \/ NextMask
    \/ Protect_read

SpecProtect == InitMask /\ [][NextProtect]_vars

\* no thread is inside an operation of the session
LockFree == rw_lock = NoThread

\* the complement of the cached iodir within the ports of the device
InputsProtected == AllPorts(ports) \ iodir

\* C34: after any sequence of setup and iodir assignments that have
\* completed, with write, writeall, read and readall between them, the
\* cached iomask is the complement of the cached iodir within the ports of
\* the device, and so is the value of the last gpio iomask command the
\* device has received: every input port is write protected on the device.
C34_IomaskComplementsIodir ==
    LockFree =>
        /\ iomask \cap AllPorts(ports) = InputsProtected
        /\ dev.iomask = InputsProtected
        /\ dev.iodir = iodir

\* port 0 was set up as output and then written: the iomask of the session
\* and of the device open port 0 alone
C34_Witness ==
    /\ LockFree
    /\ Len(trace) >= 2
    /\ trace[1].op = "setup" /\ trace[2].op = "write"
    /\ res["t1"].op = "write" /\ res["t1"].st = "done"
    /\ iodir = AllPorts(8) \ {0}
    /\ iomask = {0} /\ dev.iomask = {0}


----------------------------------------------------------------------------
(* Two application threads change different ports of one session: each     *)
(* writes its own output port and sets up its own further port             *)
(* (specification SpecRace)                                                *)

\* operations the two callers of SpecRace start in one behaviour
MaxRaceOps == 3

\* the output port thread t writes, and the port it sets up
WritePortOf(t) == IF t = "t1" THEN 0 ELSE 1
SetupPortOf(t) == IF t = "t1" THEN 2 ELSE 3

\* an 8 port session with the ports 0 and 1 set up as outputs
InitRace ==
    Ready([DeviceAfterInit(8, <<LF>>, {}, {0, 5}) EXCEPT
              !.iodir = AllPorts(8) \ {0, 1}, !.iomask = {0, 1}],
          FALSE, [x \in AllPorts(8) |-> "0"], [x \in AllPorts(8) |-> NoEdge])

MoreRace == Len(trace) < MaxRaceOps

Race_write ==
    \E t \in Callers, v \in {0, 1} :
        MoreRace /\ write(t, WritePortOf(t), v)
Race_setup ==
    \E t \in Callers, d \in {OUT, IN_} :
        MoreRace /\ setup(t, SetupPortOf(t), d)

NextRace ==
    \/ Race_write
    \/ Race_setup
    \/ \E t \in Callers :
          Send(t) \/ ReadString(t) \/ Assign(t) \/ Release(t) \/ Return(t)
    \/ PollTop
    \/ PollThird

SpecRace == InitRace /\ [][NextRace]_vars

\* the calls of operation op on port p so far, as places of the history
CallsOf(op, p) ==
    {i \in 1..Len(trace) : trace[i].op = op /\ trace[i].port = p}

\* the argument of the last call of operation op on port p
LastArg(op, p) == trace[Max(CallsOf(op, p))].n

\* every operation that was called has returned
AllReturned ==
    /\ rw_lock = NoThread
    /\ \A t \in Callers : res[t].st \in {"idle", "done"}

\* C37: no update is lost: when the writes of two threads on different
\* output ports and their setups of different ports have returned, in
\* whatever order they ran, the cached state and the value of the last
\* gpio writeall command have each written port at the level of its last
\* write, and the cached iodir and the device have each port that was set
\* up in the direction of its last setup.
C37_NoLostUpdate ==
    AllReturned =>
        /\ \A p \in {0, 1} :
              CallsOf("write", p) # {} =>
                  /\ (p \in state) = (LastArg("write", p) # 0)
                  /\ (p \in dev.levels) = (LastArg("write", p) # 0)
        /\ \A p \in {2, 3} :
              CallsOf("setup", p) # {} =>
                  /\ (p \in iodir) = (LastArg("setup", p) # 0)
                  /\ (p \in dev.iodir) = (LastArg("setup", p) # 0)

\* thread t2 has written 1 to port 1, then thread t1 1 to port 0, then
\* thread t2 has set up port 3 as output, and all of it shows
C37_Witness ==
    /\ AllReturned
    /\ Len(trace) = 3
    /\ trace[1].t = "t2" /\ trace[1].op = "write" /\ trace[1].n = 1
    /\ trace[2].t = "t1" /\ trace[2].op = "write" /\ trace[2].n = 1
    /\ trace[3].t = "t2" /\ trace[3].op = "setup" /\ trace[3].n = OUT
    /\ state = {0, 1} /\ dev.levels = {0, 1}
    /\ iodir = AllPorts(8) \ {0, 1, 3}

====
